---- MODULE Spec2Model ----
(***************************************************************************)
(* Model of the DEV/PROD configuration sync component                      *)
(* (src/src/component.py, src/src/kbc_scripts/kbcapi_scripts.py).          *)
(*                                                                         *)
(* Python strings that the code splits, joins or inspects are sequences of *)
(* tokens: "." and "#" are tokens of their own, every other token is a run *)
(* of characters holding neither.                                          *)
(*                                                                         *)
(* Python dicts are objects on a heap: the code stores references to the   *)
(* destination's sub-dicts into the source configuration and then writes   *)
(* through them, so two paths can reach one object.  heap[i] is the dict   *)
(* object i, a function from keys (strings) to values; a value is a leaf   *)
(* (scalar) or a reference to a dict object.  The iteration order of the   *)
(* input dicts is given by keyOrder.  Trees (a leaf, or a dict of trees)   *)
(* are the inputs as read from JSON and the payloads as written to JSON.   *)
(***************************************************************************)
EXTENDS Integers, Sequences, FiniteSets, TLC

VARIABLES
    mode,          \* redaction applied twice: the phase
    keyOrder,      \* insertion order of the keys of the input dicts
    heap,          \* the dict objects
    changed,       \* redaction: the changed (source) configuration
    original,      \* redaction: the original (destination) configuration
    ignored,       \* redaction: the list of ignored property paths
    result,        \* redaction: outcome of the first application
    result2,       \* redaction: outcome of the second application
    family,        \* upsert: the family of configurations the projects hold
    pc,            \* upsert: position in upsert_component_configurations_to_dst
    todo,          \* upsert: ids of the source configurations not yet visited
    component_id,  \* upsert: the component being synced
    ignore_inactive_orch,    \* parameter ignore_inactive_orchestrations
    ignored_properties_cfg,  \* self.ignored_properties_cfg
    remote,        \* upsert: what the two projects hold under the current id
    src_config,    \* upsert: the loop variable
    dst_config,    \* upsert: what the destination lookup returned
    root_config,   \* upsert: {'update': ..., 'create': ...}
    row_configs,   \* upsert: {'update': [...], 'create': [...]}
    rows,          \* _update_destination_rows: rows still to send
    calls,         \* write calls issued for the current configuration
    error,         \* the exception that ended the run, "none" if none
    now,           \* tokens: the clock, [s, half]: s seconds and half a second more or not
    ticks,         \* tokens: how often the clock has advanced
    branch_mode,   \* parameter branch_mode
    token_cache,   \* self.__token_cache
    serial,        \* tokens: how many tokens the API has issued
    last,          \* tokens: what the last _init_project_storage_token did
    token_error,   \* tokens: the exception that ended the run, "none" if none
    scanned,       \* secrets: the configuration given to _retrieve_encrypted_properties
    secret_key_paths,        \* secrets: the list it returned
    run_mode,      \* schedules: parameter mode of the current run
    orchestration_mapping,   \* self.orchestration_mapping
    state_file,    \* schedules: the orchestration mapping in the state file
    projects,      \* schedules: the orchestrations each project holds
    issued,        \* schedules: how many orchestration ids each project has handed out
    id_type,       \* schedules: whether the orchestrator API writes ids as strings or numbers
    orch_pc,       \* schedules: position in run and upsert_orchestrations_to_dst
    orch_todo,     \* schedules: orchestration_cfgs not yet visited
    cfg_,          \* schedules: the loop variable cfg
    new_orchestration,       \* schedules: what create_orchestration returned
    orch_calls,    \* schedules: write calls of the current run
    runs,          \* schedules: how many runs have started
    orch_error,    \* schedules: the exception that ended the run, "none" if none
    configs,       \* run: the configurations, with the ids of their rows, each project holds
    branch_id,     \* run: the branch created at the start of the run, 0 if none
    branches,      \* run: how many branches the destination has handed out
    cfg_todo,      \* run: source configurations not yet visited
    writes,        \* run: the write calls sent for configurations and rows
    src_orchestrations, \* run: the orchestrations of the source as they are listed
    skipped_component_ids, \* run: the component ids of parameter skipped_components
    lookups,       \* run: the destination lookups sent
    previous_run,  \* run: mode and outcome of the run before this one, None if none
    params,        \* startup: the parameters of the configuration
    init_pc,       \* startup: how far __init__ and run have come
    init_error,    \* startup: the exception that left __init__, "none" if none
    ignored_properties_keys, \* startup: the keys of the ignored properties dict
    remote_calls,  \* startup: the remote calls sent
    job_status,    \* poll: the status of the storage job at the server
    retries,       \* poll: the local variable retries
    slept,         \* poll: the seconds of the last time.sleep, 0 before the first
    polled,        \* poll: the job block_storage_job_until_completed returned
    state_cache,   \* token cache: the entries of the state file
    tokens_cache,  \* token cache: what _build_token_cache built
    cache_error    \* token cache: the exception that left _build_token_cache

varsReplace == <<mode, changed, original, ignored, result, result2>>

varsUpsert == <<family, pc, todo, component_id, ignore_inactive_orch,
                ignored_properties_cfg, remote, src_config, dst_config,
                root_config, row_configs, rows, calls, error>>

varsToken == <<now, ticks, branch_mode, token_cache, serial, last, token_error>>

varsSecrets == <<scanned, secret_key_paths>>

varsStart == <<params, init_pc, init_error, ignored_properties_keys, remote_calls>>

varsPoll == <<job_status, retries, slept, polled>>

varsCache == <<state_cache, tokens_cache, cache_error>>

varsAside == <<varsStart, varsPoll, varsCache>>

varsOrch == <<run_mode, orchestration_mapping, state_file, projects, issued, id_type, orch_pc,
              orch_todo, cfg_, new_orchestration, orch_calls, runs, orch_error>>

varsSync == <<configs, branch_id, branches, cfg_todo, writes, src_orchestrations,
              skipped_component_ids, lookups,
              previous_run>>

vars == <<keyOrder, heap, varsReplace, varsUpsert, varsToken, varsSecrets, varsAside, varsOrch,
          varsSync>>

----------------------------------------------------------------------------
(* Values *)

Leaf(x) == [kind |-> "leaf", val |-> x]

Dict(f) == [kind |-> "dict", items |-> f]

Ref(i) == [kind |-> "ref", id |-> i]

EmptyItems == [k \in {} |-> Leaf("")]

EmptyDict == Dict(EmptyItems)

IsDict(v) == v.kind = "dict"

IsRef(v) == v.kind = "ref"

\* Python truthiness of a value on the heap: '' and {} are falsy
Truthy(v, h) == IF IsRef(v) THEN DOMAIN h[v.id] # {} ELSE v.val # ""

\* truthiness of a tree
TruthyTree(t) == IF IsDict(t) THEN DOMAIN t.items # {} ELSE t.val # ""

\* items with items[k] = v
Put(items, k, v) == [x \in DOMAIN items \cup {k} |-> IF x = k THEN v ELSE items[x]]

\* obj[k] = v on the heap
Store(h, obj, k, v) == [h EXCEPT ![obj.id] = Put(h[obj.id], k, v)]

Ok(v, h) == [err |-> "none", val |-> v, heap |-> h]

Raise(e, h) == [err |-> e, val |-> Leaf(""), heap |-> h]

\* json.loads: the dict objects of a tree are allocated on the heap
\* Python evaluates eagerly: x is computed, then e
Eager(x, e) == IF x = x THEN e ELSE e

RECURSIVE Alloc(_, _), AllocItems(_, _, _, _)
Alloc(h, t) ==
    IF ~IsDict(t) THEN [heap |-> h, val |-> t]
    ELSE LET r == AllocItems(h, t.items, DOMAIN t.items, EmptyItems)
         IN  Eager(r, [heap |-> Append(r.heap, r.items), val |-> Ref(Len(r.heap) + 1)])

AllocItems(h, items, keys, acc) ==
    IF keys = {} THEN [heap |-> h, items |-> acc]
    ELSE LET k == CHOOSE x \in keys : TRUE
             a == Alloc(h, items[k])
         IN  Eager(a, AllocItems(a.heap, items, keys \ {k}, Put(acc, k, a.val)))

\* whether a dict object is reachable from itself below v
RECURSIVE Circular(_, _, _)
Circular(v, h, fuel) ==
    /\ IsRef(v)
    /\ \/ fuel = 0
       \/ \E k \in DOMAIN h[v.id] : Circular(h[v.id][k], h, fuel - 1)

\* the tree below v, for a v that is not circular
RECURSIVE Unfold(_, _)
Unfold(v, h) ==
    IF ~IsRef(v) THEN v
    ELSE Dict([k \in DOMAIN h[v.id] |-> Unfold(h[v.id][k], h)])

CircularReference == Leaf("ValueError: Circular reference detected")

\* json.dumps: the tree below v, or the ValueError of a circular reference
Dumps(v, h) == IF Circular(v, h, Len(h)) THEN CircularReference ELSE Unfold(v, h)

----------------------------------------------------------------------------
(* Strings *)

DOT == "."

HASH == "#"

\* str.startswith('#')
StartsWithHash(s) == s # <<>> /\ Head(s) = HASH

RECURSIVE IndexOfDot(_, _)
IndexOfDot(s, i) ==
    IF i > Len(s) THEN 0
    ELSE IF s[i] = DOT THEN i
    ELSE IndexOfDot(s, i + 1)

\* str.split('.')
RECURSIVE Split(_)
Split(s) ==
    LET i == IndexOfDot(s, 1) IN
    IF i = 0 THEN <<s>>
    ELSE <<SubSeq(s, 1, i - 1)>> \o Split(SubSeq(s, i + 1, Len(s)))

\* f'{a}.{b}'
Dotted(a, b) == a \o <<DOT>> \o b

K_CONFIGURATION == <<"configuration">>

K_PARAMETERS == <<"parameters">>

K_AUTHORIZATION == <<"authorization">>

----------------------------------------------------------------------------
(* Component._replace_ignored_properties *)

\* [err, val]: the value found, or the last dict reached when a key is missing
RECURSIVE find_value_walk(_, _, _)
find_value_walk(keys, rv, h) ==
    IF keys = <<>> THEN Ok(rv, h)
    ELSE IF ~IsRef(rv) THEN Raise("TypeError", h)         \* rv[key] on a scalar
    ELSE IF Head(keys) \notin DOMAIN h[rv.id] THEN Ok(rv, h) \* KeyError: break
    ELSE find_value_walk(Tail(keys), h[rv.id][Head(keys)], h)

find_value(element, config, h) == find_value_walk(Split(element), config, h)

\* [err, heap]: the heap after prev_object[key] = value at the last key
RECURSIVE replace_value_walk(_, _, _, _)
replace_value_walk(keys, prev_object, value, h) ==
    IF ~IsRef(prev_object) THEN Raise("AttributeError", h) \* rv.get(key) on a scalar
    ELSE IF Len(keys) = 1 THEN Ok(value, Store(h, prev_object, Head(keys), value))
    ELSE IF Head(keys) \notin DOMAIN h[prev_object.id] THEN Raise("KeyError", h)
    ELSE replace_value_walk(Tail(keys), h[prev_object.id][Head(keys)], value, h)

replace_value(element_path, dict_object, value, h) ==
    replace_value_walk(Split(element_path), dict_object, value, h)

RECURSIVE replace_ignored_loop(_, _, _, _)
replace_ignored_loop(changed_config, original_config, ignored_properties, h) ==
    IF ignored_properties = <<>> THEN Ok(changed_config, h)
    ELSE
        LET ignored_property_path == Dotted(K_CONFIGURATION, Head(ignored_properties))
            original_value == find_value(ignored_property_path, original_config, h)
            changed_value == find_value(ignored_property_path, changed_config, h)
        IN  IF original_value.err # "none" THEN original_value
            ELSE IF changed_value.err # "none" THEN changed_value
            ELSE IF Truthy(original_value.val, h) /\ Truthy(changed_value.val, h)
            THEN LET r == replace_value(ignored_property_path, changed_config,
                                        original_value.val, h)
                 IN  IF r.err # "none" THEN r
                     ELSE replace_ignored_loop(changed_config, original_config,
                                               Tail(ignored_properties), r.heap)
            ELSE replace_ignored_loop(changed_config, original_config,
                                      Tail(ignored_properties), h)

\* changed_config and original_config are references to configuration objects
\* (dicts with a 'configuration' key).  [err, val, heap]: val is changed_config.
_replace_ignored_properties(changed_config, original_config, ignored_properties, h) ==
    replace_ignored_loop(changed_config, original_config, ignored_properties, h)

----------------------------------------------------------------------------
(* Configuration objects                                                   *)
(*                                                                         *)
(* A root configuration is [id, ref, rows, isDisabled] and a row is        *)
(* [id, ref, isDisabled]: ref is the dict object holding its               *)
(* 'configuration' key, the only part the paths enter.  None is Python's   *)
(* None.                                                                   *)

None == [kind |-> "none"]

\* d.get(k, default) for a dict object d
Get(d, k, default, h) == IF k \in DOMAIN h[d.id] THEN h[d.id][k] ELSE default

\* config['configuration']
ConfigurationOf(config, h) == h[config.ref.id][K_CONFIGURATION]

\* what a call left behind: its error and the JSON of the changed configuration
Outcome(r) ==
    IF r.err # "none" THEN [err |-> r.err, json |-> Leaf("")]
    ELSE [err |-> "none", json |-> Dumps(r.val, r.heap)]

NoOutcome == [err |-> "unset", json |-> Leaf("")]

\* the variables of a part of the program that a specification does not run
ReplaceIdle ==
    /\ mode = "idle"
    /\ changed = None
    /\ original = None
    /\ ignored = <<>>
    /\ result = NoOutcome
    /\ result2 = NoOutcome

UpsertIdle ==
    /\ family = "none"
    /\ pc = "idle"
    /\ todo = <<>>
    /\ component_id = ""
    /\ ignored_properties_cfg = <<>>
    /\ remote = None
    /\ src_config = None
    /\ dst_config = None
    /\ root_config = None
    /\ row_configs = None
    /\ rows = <<>>
    /\ calls = <<>>
    /\ error = "none"

TokenIdle ==
    /\ now = None
    /\ ticks = 0
    /\ token_cache = <<>>
    /\ serial = 0
    /\ last = None
    /\ token_error = "none"

SecretsIdle ==
    /\ scanned = None
    /\ secret_key_paths = None

StartIdle ==
    /\ params = None
    /\ init_pc = "idle"
    /\ init_error = "none"
    /\ ignored_properties_keys = {}
    /\ remote_calls = <<>>

PollIdle ==
    /\ job_status = "none"
    /\ retries = 0
    /\ slept = 0
    /\ polled = None

CacheIdle ==
    /\ state_cache = None
    /\ tokens_cache = None
    /\ cache_error = "none"

AsideIdle ==
    /\ StartIdle
    /\ PollIdle
    /\ CacheIdle

SyncIdle ==
    /\ configs = <<>>
    /\ branch_id = 0
    /\ branches = 0
    /\ cfg_todo = <<>>
    /\ writes = <<>>
    /\ src_orchestrations = <<>>
    /\ skipped_component_ids = {}
    /\ lookups = <<>>
    /\ previous_run = None

OrchIdle ==
    /\ run_mode = "none"
    /\ orchestration_mapping = <<>>
    /\ state_file = <<>>
    /\ projects = <<>>
    /\ issued = <<>>
    /\ id_type = "none"
    /\ orch_pc = "idle"
    /\ orch_todo = <<>>
    /\ cfg_ = None
    /\ new_orchestration = None
    /\ orch_calls = <<>>
    /\ runs = 0
    /\ orch_error = "none"

RECURSIVE SetToSeq(_)
SetToSeq(S) ==
    IF S = {} THEN <<>>
    ELSE LET x == CHOOSE y \in S : TRUE IN <<x>> \o SetToSeq(S \ {x})

\* the keys of a dict object in iteration order
KeysOf(d, h) ==
    SelectSeq(keyOrder, LAMBDA k : k \in DOMAIN h[d.id])
    \o SetToSeq(DOMAIN h[d.id] \ {keyOrder[i] : i \in DOMAIN keyOrder})

----------------------------------------------------------------------------
(* Component._retrieve_encrypted_properties *)

RECURSIVE find_secret(_, _, _, _), find_secret_items(_, _, _, _)
\* find_secret without the elif: it goes on below a '#'-prefixed key
find_secret_below_hash(path, config_part, current_key, h) ==
    LET result_path == IF path # <<>> THEN Dotted(path, current_key) ELSE current_key
        below == IF IsRef(config_part)
                 THEN find_secret_items(result_path, config_part, KeysOf(config_part, h), h)
                 ELSE <<>>
    IN  IF StartsWithHash(current_key) THEN <<result_path>> \o below ELSE below

find_secret(path, config_part, current_key, h) ==
    LET result_path == IF path # <<>> THEN Dotted(path, current_key) ELSE current_key
    IN  IF StartsWithHash(current_key) THEN <<result_path>>
        ELSE IF IsRef(config_part)
        THEN find_secret_items(result_path, config_part, KeysOf(config_part, h), h)
        ELSE <<>>

\* for key, value in config_part.items(): find_secret(result_path, value, key)
find_secret_items(result_path, config_part, keys, h) ==
    IF keys = <<>> THEN <<>>
    ELSE find_secret(result_path, h[config_part.id][Head(keys)], Head(keys), h)
         \o find_secret_items(result_path, config_part, Tail(keys), h)

\* the list secret_key_paths
_retrieve_encrypted_properties(configuration, h) ==
    LET cfg == ConfigurationOf(configuration, h)
    IN  IF K_PARAMETERS \notin DOMAIN h[cfg.id] THEN <<>>
        ELSE LET parameters == h[cfg.id][K_PARAMETERS]
             IN  find_secret_items(<<>>, parameters, KeysOf(parameters, h), h)

----------------------------------------------------------------------------
(* Component._build_config_key, _split_configuration_parts,                *)
(* _skip_auth_properties, _filter_ignored_row_properties,                  *)
(* _filter_ignored_properties                                              *)

\* ids are strings of one token; row_id is '' when there is none
_build_config_key(configuration_id, row_id) ==
    IF row_id # "" THEN Dotted(<<configuration_id>>, <<row_id>>)
    ELSE <<configuration_id>>

\* [f'parameters.{p}' for p in props]
ParameterPaths(props) == [i \in DOMAIN props |-> Dotted(K_PARAMETERS, props[i])]

\* self.ignored_properties_cfg.get(key, [])
IgnoredFor(cfg, key) == IF key \in DOMAIN cfg THEN cfg[key] ELSE <<>>

RowIds(rows_) == {rows_[i].id : i \in DOMAIN rows_}

\* a split that leaves a configuration without counterpart in the update bucket
split_absent_as_update(src_configuration, dst_configuration) ==
    [root_config |-> [update |-> src_configuration, create |-> None],
     row_configs |-> [update |-> <<>>, create |-> src_configuration.rows]]

\* (root_config, row_configs)
_split_configuration_parts(src_configuration, dst_configuration) ==
    IF dst_configuration # None
    THEN LET dst_row_ids == RowIds(dst_configuration.rows)
         IN  [root_config |-> [update |-> src_configuration, create |-> None],
              row_configs |->
                  [update |-> SelectSeq(src_configuration.rows,
                                        LAMBDA row : row.id \in dst_row_ids),
                   create |-> SelectSeq(src_configuration.rows,
                                        LAMBDA row : row.id \notin dst_row_ids)]]
    ELSE [root_config |-> [update |-> None, create |-> src_configuration],
          row_configs |-> [update |-> <<>>, create |-> src_configuration.rows]]

\* a create that keeps the authorization of the source
skip_auth_keeps_authorization(configuration, h) == h

\* the heap after the call (the buckets themselves are returned unchanged)
_skip_auth_properties(configuration, h) ==
    LET create_config == configuration.create
    IN  IF create_config = None THEN h
        ELSE LET cfg == ConfigurationOf(create_config, h)
             IN  IF Truthy(Get(cfg, K_AUTHORIZATION, Leaf(""), h), h)
                 THEN Store(Append(h, EmptyItems), cfg, K_AUTHORIZATION, Ref(Len(h) + 1))
                 ELSE h

\* {k['id']: k for k in dst_config['rows']}[row_id]: the last row of that id
DstRow(rows_, row_id) ==
    rows_[CHOOSE i \in DOMAIN rows_ :
            /\ rows_[i].id = row_id
            /\ \A j \in DOMAIN rows_ : rows_[j].id = row_id => j <= i]

\* The loop over row_configs['update'].  [err, val, heap, cfg]: val is the list
\* new_cfg_rows, cfg is self.ignored_properties_cfg after the call.
RECURSIVE filter_rows_loop(_, _, _, _, _)
filter_rows_loop(dst_config_, rows_, new_cfg_rows, cfg, h) ==
    IF rows_ = <<>> THEN [err |-> "none", val |-> new_cfg_rows, heap |-> h, cfg |-> cfg]
    ELSE
        LET row == Head(rows_)
            config_key == _build_config_key(dst_config_.id, row.id)
            \* the list object stored under config_key is extended in place
            ignored_parameter_properties ==
                IgnoredFor(cfg, config_key) \o _retrieve_encrypted_properties(row, h)
            cfg2 == IF config_key \in DOMAIN cfg
                    THEN [cfg EXCEPT ![config_key] = ignored_parameter_properties]
                    ELSE cfg
            r == _replace_ignored_properties(row.ref, DstRow(dst_config_.rows, row.id).ref,
                                             ParameterPaths(ignored_parameter_properties),
                                             h)
        IN  IF r.err # "none"
            THEN [err |-> r.err, val |-> new_cfg_rows, heap |-> r.heap, cfg |-> cfg2]
            ELSE filter_rows_loop(dst_config_, Tail(rows_), Append(new_cfg_rows, row),
                                  cfg2, r.heap)

\* a row redaction that forgets the rows it has redacted
filter_rows_drops_updates(dst_config_, row_configs_, cfg, h) ==
    [err |-> "none", val |-> [row_configs_ EXCEPT !.update = <<>>], heap |-> h, cfg |-> cfg]

\* [err, val, heap, cfg]: val is row_configs
_filter_ignored_row_properties(dst_config_, row_configs_, cfg, h) ==
    IF dst_config_ = None
    THEN [err |-> "none", val |-> row_configs_, heap |-> h, cfg |-> cfg]
    ELSE LET r == filter_rows_loop(dst_config_, row_configs_.update, <<>>, cfg, h)
         IN  [r EXCEPT !.val = [row_configs_ EXCEPT !.update = r.val]]

\* [err, val, heap]: val is root_config
_filter_ignored_properties(dst_config_, root_config_, cfg, h) ==
    IF dst_config_ = None THEN Ok(root_config_, h)
    ELSE
        LET configuration == root_config_.update
            key == _build_config_key(configuration.id, "")
            \* ignore authentication (oAuth) by default
            auth == IF Truthy(Get(ConfigurationOf(configuration, h), K_AUTHORIZATION,
                                  Leaf(""), h), h)
                    THEN <<K_AUTHORIZATION>> ELSE <<>>
            ignored_properties ==
                auth \o ParameterPaths(IgnoredFor(cfg, key))
                     \o ParameterPaths(_retrieve_encrypted_properties(configuration, h))
            r == _replace_ignored_properties(configuration.ref, dst_config_.ref,
                                             ignored_properties, h)
        IN  IF r.err # "none" THEN r ELSE Ok(root_config_, r.heap)

----------------------------------------------------------------------------
(* Bounded input domains *)

MaxNodes == 2

MaxIgnored == 2

RECURSIVE SumOver(_, _)
SumOver(S, f) ==
    IF S = {} THEN 0
    ELSE LET x == CHOOSE y \in S : TRUE IN f[x] + SumOver(S \ {x}, f)

\* number of keys in a tree, nested ones included
RECURSIVE NodeCount(_)
NodeCount(v) ==
    IF ~IsDict(v) THEN 0
    ELSE SumOver(DOMAIN v.items, [k \in DOMAIN v.items |-> 1 + NodeCount(v.items[k])])

DictsOver(keys, vals) == {Dict(f) : f \in UNION {[D -> vals] : D \in SUBSET keys}}

\* parameter trees of depth at most 2 with at most n keys
TreesOver(keys, leaves, n) ==
    {t \in DictsOver(keys, leaves \cup DictsOver(keys, leaves)) : NodeCount(t) <= n}

PlainKeys == {<<"a">>, <<"b">>}

RECURSIVE SeqsUpTo(_, _)
SeqsUpTo(S, n) ==
    IF n = 0 THEN {<<>>}
    ELSE LET shorter == SeqsUpTo(S, n - 1)
         IN  shorter \cup {Append(q, x) : q \in shorter, x \in S}

\* a configuration object as read from the API: {'configuration': {...}}
ConfigTree(configuration) == Dict(K_CONFIGURATION :> configuration)

----------------------------------------------------------------------------
(* Redaction applied once and twice *)

ReplacePaths ==
    {Dotted(K_PARAMETERS, k) : k \in PlainKeys}
    \cup {Dotted(K_PARAMETERS, Dotted(<<"a">>, k2)) : k2 \in PlainKeys}

InitReplace ==
    /\ mode = "replace"
    /\ keyOrder = <<>>
    /\ \E s \in TreesOver(PlainKeys, {Leaf(""), Leaf("src")}, MaxNodes),
          d \in TreesOver(PlainKeys, {Leaf(""), Leaf("dst")}, MaxNodes) :
          LET c == Alloc(<<>>, ConfigTree(Dict(K_PARAMETERS :> s)))
              o == Alloc(c.heap, ConfigTree(Dict(K_PARAMETERS :> d)))
          IN  /\ heap = o.heap
              /\ changed = c.val
              /\ original = o.val
    /\ ignored \in SeqsUpTo(ReplacePaths, MaxIgnored)
    /\ result = NoOutcome
    /\ result2 = NoOutcome
    /\ UpsertIdle
    /\ ignore_inactive_orch = FALSE
    /\ TokenIdle
    /\ branch_mode = FALSE
    /\ SecretsIdle
    /\ AsideIdle
    /\ OrchIdle
    /\ SyncIdle

\* changed = _replace_ignored_properties(changed, original, ignored)
ReplaceOnce ==
    /\ mode = "replace"
    /\ mode' = "replaced"
    /\ LET r == _replace_ignored_properties(changed, original, ignored, heap)
       IN  /\ heap' = r.heap
           /\ result' = Outcome(r)
    /\ UNCHANGED <<keyOrder, changed, original, ignored, result2, varsUpsert, varsToken,
                   varsSecrets, varsAside, varsOrch, varsSync>>

\* the same call again, on the configuration the first call returned
ReplaceTwice ==
    /\ mode = "replaced"
    /\ result.err = "none"
    /\ mode' = "replaced_twice"
    /\ LET r == _replace_ignored_properties(changed, original, ignored, heap)
       IN  /\ heap' = r.heap
           /\ result2' = Outcome(r)
    /\ UNCHANGED <<keyOrder, changed, original, ignored, result, varsUpsert, varsToken,
                   varsSecrets, varsAside, varsOrch, varsSync>>

NextReplace == ReplaceOnce \/ ReplaceTwice

SpecReplace == InitReplace /\ [][NextReplace]_vars

\* C7: redaction is idempotent: a second application of
\* _replace_ignored_properties, with the same original configuration and the
\* same ignored paths, to the result of the first application returns without
\* error the configuration the first application returned.
C7_Idempotent == mode = "replaced_twice" => result2 = result

----------------------------------------------------------------------------
(* The configurations the two projects hold                                *)

MaxRows == 2

MaxPairNodes == 3

SecretKeys == {<<"a">>, <<HASH, "s">>, <<HASH, "s", DOT, "a">>}

\* the ids of the source configurations, in the order of the listing
ConfigIds == <<"1", "2">>

RowId(i) == ToString(i)

\* 'authorization' of a configuration: missing, empty or filled in
Authorizations(tag) == {None, EmptyDict, Dict(<<"oauth_api">> :> Leaf(tag))}

\* the 'configuration' object with the given authorization and parameters
Configuration(authorization, parameters) ==
    Dict([k \in {K_PARAMETERS} \cup (IF authorization = None THEN {} ELSE {K_AUTHORIZATION}) |->
             IF k = K_PARAMETERS THEN parameters ELSE authorization])

\* the rows of ids S with configurations f, in the order of their ids
RECURSIVE RowsFrom(_, _, _)
RowsFrom(i, S, f) ==
    IF i > MaxRows THEN <<>>
    ELSE (IF i \in S
          THEN <<[id |-> RowId(i), configuration |-> f[i], isDisabled |-> FALSE]>>
          ELSE <<>>) \o RowsFrom(i + 1, S, f)

RowLists(configurations) ==
    {RowsFrom(1, DOMAIN f, f) :
        f \in UNION {[S -> configurations] : S \in SUBSET (1..MaxRows)}}

\* family "rows": small parameters, any rows
SmallParameters(tag) == {Dict(<<"a">> :> Leaf(tag)), Dict(<<HASH, "s">> :> Leaf(tag))}

\* family "trees": parameter trees on both sides, in the root or in one row
\* no empty value anywhere in the tree
RECURSIVE Filled(_)
Filled(t) ==
    IF IsDict(t) THEN DOMAIN t.items # {} /\ \A k \in DOMAIN t.items : Filled(t.items[k])
    ELSE t.val # ""

TreePairs ==
    {p \in TreesOver(SecretKeys, {Leaf(""), Leaf("src")}, MaxPairNodes)
           \X TreesOver(SecretKeys, {Leaf(""), Leaf("dst")}, MaxPairNodes) :
        NodeCount(p[1]) + NodeCount(p[2]) <= MaxPairNodes}
    \cup
    {p \in TreesOver(SecretKeys, {Leaf("src")}, MaxPairNodes)
           \X TreesOver(SecretKeys, {Leaf("dst")}, MaxPairNodes) :
        /\ Filled(p[1])
        /\ Filled(p[2])
        /\ NodeCount(p[1]) + NodeCount(p[2]) <= MaxPairNodes + 1}

\* The API's JSON of a configuration
JsonConfig(id, configuration, rows_, isDisabled) ==
    [id |-> id, configuration |-> configuration, rows |-> rows_, isDisabled |-> isDisabled]

\* [src, dst]: the source configuration and what the destination holds under
\* the same id (None when it holds nothing)
ConfigPairs(fam, id, disabled) ==
    IF fam = "rows"
    THEN {[src |-> JsonConfig(id, Configuration(a, p), r, FALSE), dst |-> d] :
            a \in Authorizations("src"), p \in SmallParameters("src"),
            r \in RowLists({Configuration(None, q) : q \in SmallParameters("src")}),
            d \in {None} \cup
                 {JsonConfig(id, Configuration(b, Dict(<<HASH, "s">> :> Leaf("dst"))), t, x) :
                    b \in {EmptyDict, Dict(<<"oauth_api">> :> Leaf("dst"))},
                    t \in RowLists({Configuration(None, Dict(<<HASH, "s">> :> Leaf("dst")))}),
                    x \in disabled}}
    ELSE UNION {{[src |-> JsonConfig(id, Configuration(a, p[1]), <<>>, FALSE), dst |-> d] :
                   d \in {None} \cup {JsonConfig(id, Configuration(b, p[2]), <<>>, FALSE) :
                                         b \in Authorizations("dst")}} :
                a \in Authorizations("src"),
                p \in {q \in TreePairs : NodeCount(q[1]) <= 1 /\ NodeCount(q[2]) <= 1}}
         \cup
         {[src |-> JsonConfig(id, Configuration(None, p[1]), <<>>, FALSE),
           dst |-> JsonConfig(id, Configuration(None, p[2]), <<>>, FALSE)] : p \in TreePairs}
         \cup
         {[src |-> JsonConfig(id, Configuration(None, EmptyDict),
                              <<[id |-> RowId(1), configuration |-> Configuration(None, p[1]),
                                 isDisabled |-> FALSE]>>, FALSE),
           dst |-> JsonConfig(id, Configuration(None, EmptyDict),
                              IF present
                              THEN <<[id |-> RowId(1),
                                      configuration |-> Configuration(None, p[2]),
                                      isDisabled |-> FALSE]>>
                              ELSE <<>>, FALSE)] :
            p \in TreePairs, present \in BOOLEAN}

\* response.json(): the objects of a configuration and of its rows
RECURSIVE LoadRows(_, _, _)
LoadRows(h, rows_, acc) ==
    IF rows_ = <<>> THEN [heap |-> h, val |-> acc]
    ELSE LET a == Alloc(h, ConfigTree(Head(rows_).configuration))
         IN  Eager(a, LoadRows(a.heap, Tail(rows_),
                               Append(acc, [id |-> Head(rows_).id, ref |-> a.val,
                                            isDisabled |-> Head(rows_).isDisabled])))

Load(h, json) ==
    IF json = None THEN [heap |-> h, val |-> None]
    ELSE LET a == Alloc(h, ConfigTree(json.configuration))
             r == LoadRows(a.heap, json.rows, <<>>)
         IN  Eager(a, Eager(r, [heap |-> r.heap,
                                 val |-> [id |-> json.id, ref |-> a.val, rows |-> r.val,
                                          isDisabled |-> json.isDisabled]]))

----------------------------------------------------------------------------
(* Component.upsert_component_configurations_to_dst, one step per call     *)

KEBOOLA_ORCHESTRATOR == "keboola.orchestrator"

InitUpsertOf(fam, src_configurations, component_ids) ==
    /\ family = fam
    /\ pc = "loop"
    /\ todo = src_configurations
    /\ component_id \in component_ids
    /\ ignore_inactive_orch \in BOOLEAN
    /\ ignore_inactive_orch = (component_id = KEBOOLA_ORCHESTRATOR)
    /\ ignored_properties_cfg \in
          {<<>>,
           (<<"1">> :> <<<<"a">>>>) @@ (<<"1", DOT, "1">> :> <<<<"a">>>>)}
    /\ keyOrder \in {<<<<"a">>, <<HASH, "s">>, <<HASH, "s", DOT, "a">>>>,
                     <<<<"a">>, <<HASH, "s", DOT, "a">>, <<HASH, "s">>>>}
    /\ (fam = "rows" => keyOrder[2] = <<HASH, "s">>)
    /\ heap = <<>>
    /\ remote = None
    /\ src_config = None
    /\ dst_config = None
    /\ root_config = None
    /\ row_configs = None
    /\ rows = <<>>
    /\ calls = <<>>
    /\ error = "none"
    /\ ReplaceIdle
    /\ TokenIdle
    /\ branch_mode = FALSE
    /\ SecretsIdle
    /\ AsideIdle
    /\ OrchIdle
    /\ SyncIdle

varsLoop == <<remote, src_config, dst_config, root_config, row_configs, rows, calls>>

varsRun == <<family, keyOrder, todo, component_id, ignore_inactive_orch, varsReplace,
             varsToken, varsSecrets, varsAside, varsOrch, varsSync>>

\* an exception leaves the handler and ends the run
Abort(e) ==
    /\ pc' = "aborted"
    /\ error' = e

\* for src_config in src_configurations:
\*     dst_config = self._get_configuration(component_id, src_config['id'])
\* _get_configuration answers None on 404 and re-raises any other HTTPError
_get_configuration ==
    /\ pc = "loop"
    /\ todo # <<>>
    /\ LET id == Head(todo) IN
          /\ todo' = Tail(todo)
          /\ \E p \in ConfigPairs(family, id,
                                 IF ignore_inactive_orch THEN BOOLEAN ELSE {FALSE}),
                status \in {200, 404, 500} :
                LET s == Load(<<>>, p.src)
                    d == Load(s.heap, IF status = 200 THEN p.dst ELSE None)
                IN  /\ status = 200 => p.dst # None
                    /\ status = 404 => p.dst = None
                    /\ remote' = p
                    /\ Eager(s, src_config' = s.val)
                    /\ dst_config' = d.val
                    /\ heap' = d.heap
                    /\ IF status = 500
                       THEN Abort("HTTPError")
                       ELSE pc' = "split" /\ error' = error
    /\ UNCHANGED <<family, keyOrder, component_id, ignore_inactive_orch,
                   ignored_properties_cfg, root_config, row_configs, rows, calls,
                   varsReplace, varsToken, varsSecrets, varsAside, varsOrch, varsSync>>

\* root_config, row_configs = self._split_configuration_parts(src_config, dst_config)
SplitConfigurationParts ==
    /\ pc = "split"
    /\ LET r == _split_configuration_parts(src_config, dst_config)
       IN  /\ root_config' = r.root_config
           /\ row_configs' = r.row_configs
    /\ pc' = "filter_rows"
    /\ UNCHANGED <<heap, ignored_properties_cfg, remote, src_config, dst_config, rows,
                   calls, error, varsRun>>

\* row_configs = self._filter_ignored_row_properties(dst_config, row_configs)
FilterRows ==
    /\ pc = "filter_rows"
    /\ LET r == _filter_ignored_row_properties(dst_config, row_configs,
                                               ignored_properties_cfg, heap)
       IN  /\ heap' = r.heap
           /\ ignored_properties_cfg' = r.cfg
           /\ IF r.err # "none"
              THEN Abort(r.err) /\ UNCHANGED row_configs
              ELSE pc' = "filter_root" /\ row_configs' = r.val /\ error' = error
    /\ UNCHANGED <<remote, src_config, dst_config, root_config, rows, calls, varsRun>>

\* root_config = self._filter_ignored_properties(dst_config, root_config)
FilterRoot ==
    /\ pc = "filter_root"
    /\ LET r == _filter_ignored_properties(dst_config, root_config,
                                           ignored_properties_cfg, heap)
       IN  /\ heap' = r.heap
           /\ IF r.err # "none"
              THEN Abort(r.err) /\ UNCHANGED root_config
              ELSE pc' = "skip_auth" /\ root_config' = r.val /\ error' = error
    /\ UNCHANGED <<ignored_properties_cfg, remote, src_config, dst_config, row_configs, rows,
                   calls, varsRun>>

\* root_config = self._skip_auth_properties(root_config), and then
\* if root_config.get('update') and component_id == 'keboola.orchestrator' \
\*         and self.ignore_inactive_orch:
\*     root_config['update']['isDisabled'] = dst_config['isDisabled']
SkipAuth ==
    /\ pc = "skip_auth"
    /\ heap' = _skip_auth_properties(root_config, heap)
    /\ root_config' =
          IF /\ root_config.update # None
             /\ component_id = KEBOOLA_ORCHESTRATOR
             /\ ignore_inactive_orch
          THEN [root_config EXCEPT !.update.isDisabled = dst_config.isDisabled]
          ELSE root_config
    /\ pc' = "update_config"
    /\ UNCHANGED <<ignored_properties_cfg, remote, src_config, dst_config, row_configs, rows,
                   calls, error, varsRun>>

\* The request of a write call; its body is the JSON text of the configuration
\* (create_config and update_config take no is_disabled: the flag falls into
\* their **kwargs and is not sent)
\* a call that leaves the ids to the destination
call_without_ids(op, configurationId, row_id, config) ==
    [op |-> op, component_id |-> component_id, configurationId |-> "",
     row_id |-> "", configuration |-> Dumps(ConfigurationOf(config, heap), heap),
     is_disabled |-> IF op \in {"create_config", "update_config"} THEN None
                     ELSE config.isDisabled]

Call(op, configurationId, row_id, config) ==
    [op |-> op, component_id |-> component_id, configurationId |-> configurationId,
     row_id |-> row_id, configuration |-> Dumps(ConfigurationOf(config, heap), heap),
     is_disabled |-> IF op \in {"create_config", "update_config"} THEN None
                     ELSE config.isDisabled]

\* One kbcapi_scripts write call: the JSON encoder raises ValueError on a
\* circular structure, the request raises HTTPError when the API refuses it.
Send(call, next) ==
    IF call.configuration = CircularReference
    THEN Abort("ValueError") /\ UNCHANGED calls
    ELSE \E accepted \in BOOLEAN :
            IF accepted
            THEN calls' = Append(calls, call) /\ pc' = next /\ error' = error
            ELSE Abort("HTTPError") /\ UNCHANGED calls

\* self._update_destination_config(component_id, root_config[mode], mode=mode),
\* followed by the call of _update_destination_rows up to its loop
_update_destination_config(at, mode_, next) ==
    /\ pc = at
    /\ IF root_config[mode_] = None
       THEN pc' = next /\ UNCHANGED <<calls, error>>
       ELSE Send(Call(mode_ \o "_config", root_config[mode_].id, "", root_config[mode_]),
                 next)
    /\ rows' = row_configs[mode_]
    /\ UNCHANGED <<heap, ignored_properties_cfg, remote, src_config, dst_config,
                   root_config, row_configs, varsRun>>

\* one iteration of the loop of self._update_destination_rows(component_id,
\* src_config['id'], row_configs[mode], mode=mode), or its end
_update_destination_rows(at, mode_, next) ==
    /\ pc = at
    /\ IF rows = <<>>
       THEN pc' = next /\ UNCHANGED <<rows, calls, error>>
       ELSE /\ Send(Call(mode_ \o "_config_row", src_config.id, Head(rows).id, Head(rows)),
                    at)
            /\ rows' = Tail(rows)
    /\ UNCHANGED <<heap, ignored_properties_cfg, remote, src_config, dst_config,
                   root_config, row_configs, varsRun>>

UpdateConfig == _update_destination_config("update_config", "update", "update_rows")

UpdateRows == _update_destination_rows("update_rows", "update", "create_config")

CreateConfig == _update_destination_config("create_config", "create", "create_rows")

CreateRows == _update_destination_rows("create_rows", "create", "next")

\* the end of the loop body: its locals and the objects they hold are dropped
NextConfiguration ==
    /\ pc = "next"
    /\ pc' = "loop"
    /\ heap' = <<>>
    /\ remote' = None
    /\ src_config' = None
    /\ dst_config' = None
    /\ root_config' = None
    /\ row_configs' = None
    /\ rows' = <<>>
    /\ calls' = <<>>
    /\ UNCHANGED <<ignored_properties_cfg, error, varsRun>>

\* the loop is over: the handler returns
Return ==
    /\ pc = "loop"
    /\ todo = <<>>
    /\ pc' = "done"
    /\ UNCHANGED <<heap, ignored_properties_cfg, error, varsLoop, varsRun>>

NextUpsert ==
    \/ _get_configuration
    \/ SplitConfigurationParts
    \/ FilterRows
    \/ FilterRoot
    \/ SkipAuth
    \/ UpdateConfig
    \/ UpdateRows
    \/ CreateConfig
    \/ CreateRows
    \/ NextConfiguration
    \/ Return

InitUpsert == InitUpsertOf("rows", ConfigIds, {KEBOOLA_ORCHESTRATOR, "keboola.ex-db-mysql"})

SpecUpsert == InitUpsert /\ [][NextUpsert]_vars

InitRedact == InitUpsertOf("trees", <<"1">>, {"keboola.ex-db-mysql"})

SpecRedact == InitRedact /\ [][NextUpsert]_vars

----------------------------------------------------------------------------
(* What the payloads are compared with                                     *)

\* t[k1][k2]...: the value at a path of keys, None where the path leaves the tree
RECURSIVE ValueAt(_, _)
ValueAt(t, keys) ==
    IF keys = <<>> THEN t
    ELSE IF t = None \/ ~IsDict(t) \/ Head(keys) \notin DOMAIN t.items THEN None
    ELSE ValueAt(t.items[Head(keys)], Tail(keys))

\* The paths of keys that end in the first '#'-prefixed key of a branch
RECURSIVE SecretKeyPaths(_)
SecretKeyPaths(t) ==
    IF ~IsDict(t) THEN {}
    ELSE UNION {IF StartsWithHash(k) THEN {<<k>>}
                ELSE {<<k>> \o q : q \in SecretKeyPaths(t.items[k])} : k \in DOMAIN t.items}

ParametersOf(configuration) == ValueAt(configuration, <<K_PARAMETERS>>)

AuthorizationOf(configuration) == ValueAt(configuration, <<K_AUTHORIZATION>>)

\* the configuration a project holds for the object a call writes
RemoteOf(json, call) ==
    IF json = None THEN None
    ELSE IF call.row_id = "" THEN json.configuration
    ELSE IF \E i \in DOMAIN json.rows : json.rows[i].id = call.row_id
    THEN json.rows[CHOOSE i \in DOMAIN json.rows : json.rows[i].id = call.row_id].configuration
    ELSE None

IsUpdate(call) == call.op \in {"update_config", "update_config_row"}

\* C1: in every update payload, of a root configuration or of a row, each
\* secret path of the source parameters that holds a non-empty value at the
\* destination carries the destination's value, where the source and the
\* destination parameters hold no empty value at all.
C1_SecretsKeepDestinationValue ==
    \A i \in DOMAIN calls :
        IsUpdate(calls[i]) =>
            LET src == ParametersOf(RemoteOf(remote.src, calls[i]))
                dst == ParametersOf(RemoteOf(remote.dst, calls[i]))
                sent == ParametersOf(calls[i].configuration)
            IN  (Filled(src) /\ Filled(dst)) =>
                    \A path \in SecretKeyPaths(src) :
                        ValueAt(dst, path) # None => ValueAt(sent, path) = ValueAt(dst, path)

\* C2: in every root update payload the authorization is absent, empty or the
\* destination's current authorization, whatever the two sides hold.
C2_AuthorizationNeverFromSource ==
    \A i \in DOMAIN calls :
        calls[i].op = "update_config" =>
            LET sent == AuthorizationOf(calls[i].configuration)
            IN  \/ sent = None
                \/ ~TruthyTree(sent)
                \/ sent = AuthorizationOf(remote.dst.configuration)

\* C3: every create payload of a root configuration has an empty
\* authorization or none, whatever authorization the source holds.
C3_CreateHasNoAuthorization ==
    \A i \in DOMAIN calls :
        calls[i].op = "create_config" =>
            LET sent == AuthorizationOf(calls[i].configuration)
            IN  sent = None \/ sent = EmptyDict

C3_Witness ==
    \E i \in DOMAIN calls :
        /\ calls[i].op = "create_config"
        /\ remote.dst = None
        /\ AuthorizationOf(remote.src.configuration) = Dict(<<"oauth_api">> :> Leaf("src"))
        /\ AuthorizationOf(calls[i].configuration) = EmptyDict

\* C4: when the destination lookup found nothing, the split leaves the source
\* configuration in the root create bucket and all its rows, in order, in the
\* row create bucket, and both update buckets empty.
C4_AbsentDestinationAllCreate ==
    (pc = "filter_rows" /\ dst_config = None) =>
        /\ root_config.create = src_config
        /\ root_config.update = None
        /\ row_configs.create = src_config.rows
        /\ row_configs.update = <<>>

C4_Witness ==
    /\ pc = "filter_rows"
    /\ dst_config = None
    /\ Len(src_config.rows) >= 2
    /\ Len(row_configs.create) >= 2

\* how many rows of the list have the id
Occurrences(rows_, id) == Cardinality({i \in DOMAIN rows_ : rows_[i].id = id})

\* C5: when the destination lookup found a configuration, after the split and
\* the redaction of the rows every source row is in exactly one bucket, the
\* update bucket if and only if a destination row has its id, and the buckets
\* hold nothing else.
C5_RowsPartitioned ==
    (pc = "filter_root" /\ dst_config # None) =>
        /\ \A i \in DOMAIN src_config.rows :
              LET id == src_config.rows[i].id
              IN  /\ Occurrences(row_configs.update, id)
                        = (IF id \in RowIds(dst_config.rows) THEN 1 ELSE 0)
                  /\ Occurrences(row_configs.create, id)
                        = (IF id \in RowIds(dst_config.rows) THEN 0 ELSE 1)
        /\ Len(row_configs.update) + Len(row_configs.create) = Len(src_config.rows)

C5_Witness ==
    /\ pc = "filter_root"
    /\ dst_config # None
    /\ row_configs.update # <<>>
    /\ row_configs.create # <<>>

----------------------------------------------------------------------------
(* StorageToken and the token cache                                        *)
(*                                                                         *)
(* Timestamps are seconds since 2021-06-01T00:00:00Z.  A time of the API   *)
(* is an ISO 8601 text: its fields are kept, and parsing computes the      *)
(* timestamp from them.                                                    *)

\* if expiration <= (10 * 60)
EXPIRATION_LIMIT == 600

\* generate_token(..., expires_in=1800, ...)
EXPIRES_IN == 1800

MaxTicks == 3

MaxIssued == 3

\* day-of-2021-06-01 T hh:mm:ss and the zone, in minutes east of UTC
Iso(day, hh, mm, ss, tz) ==
    [kind |-> "iso", day |-> day, hh |-> hh, mm |-> mm, ss |-> ss, tz |-> tz]

\* expires == '' or expires is None
NoExpires == [kind |-> "empty"]

\* int(parser.parse(self.expires).timestamp())
Timestamp(iso) == iso.day * 86400 + iso.hh * 3600 + iso.mm * 60 + iso.ss - iso.tz * 60

\* the API writing a time in the zone tz
Format(ts, tz) ==
    LET local == ts + tz * 60
    IN  Iso(local \div 86400, (local % 86400) \div 3600, (local % 3600) \div 60,
            local % 60, tz)

StorageToken(id, token, expires) == [id |-> id, token |-> token, expires |-> expires]

_get_expires_timestamp(self) ==
    IF self.expires = NoExpires THEN None
    ELSE [kind |-> "int", val |-> Timestamp(self.expires)]

\* an expiry check that lets a token live until its expiry is less than the limit away
is_expired_below_limit(self, clock) ==
    LET expiration_date == _get_expires_timestamp(self)
    IN  IF expiration_date = None THEN TRUE
        ELSE expiration_date.val - clock.s < EXPIRATION_LIMIT

\* StorageToken.is_expired at the time clock; `not expiration_date` also holds
\* for the timestamp 0, which is 1970-01-01T00:00:00Z
is_expired(self, clock) ==
    LET expiration_date == _get_expires_timestamp(self)
    IN  IF expiration_date = None \/ expiration_date.val = -1622505600 THEN TRUE
        ELSE LET current == clock.s
                 expiration == expiration_date.val - current
             IN  expiration <= EXPIRATION_LIMIT

\* the clock d half seconds later
Advance(clock, d) ==
    LET t == 2 * clock.s + clock.half + d
    IN  [s |-> t \div 2, half |-> t % 2]

REGION == "eu"

\* dev_id and prod_id
ProjectIds == {"1", "2"}

\* parameters['master_tokens']: '#dev_token' and '#prod_token', as <project>-<id>-<secret>
master_tokens == <<<<"1", "-", "901", "-", "devsecret">>, <<"2", "-", "902", "-", "prodsecret">>>>

MASTER_EXPIRES == Iso(10745, 11, 18, 52, 60)

\* str.split(sep)
RECURSIVE SplitOn(_, _, _)
SplitOn(str, sep, acc) ==
    IF str = <<>> THEN <<acc>>
    ELSE IF Head(str) = sep THEN <<acc>> \o SplitOn(Tail(str), sep, <<>>)
    ELSE SplitOn(Tail(str), sep, Append(acc, Head(str)))

_build_project_pk(project_id) == <<REGION, "-", project_id>>

\* the body of the answer of the API to generate_token, the n-th token it issues
generate_token(proj_id, n, clock) ==
    [id |-> <<ToString(n)>>, token |-> <<proj_id, "-", ToString(n), "-", "secret">>,
     expires |-> Format(clock.s + EXPIRES_IN, 120)]

\* a token acquisition that asks for a new token every time
init_token_always_generates(project_id, cache, response) ==
    LET project_pk == _build_project_pk(project_id)
        storage_token == StorageToken(response.json.id, response.json.token,
                                      response.json.expires)
    IN  [attempted |-> TRUE, checked |-> FALSE, expired |-> FALSE, considered |-> None,
         err |-> IF response.status = 200 THEN "none" ELSE "HTTPError",
         cache |-> IF response.status = 200 THEN Put(cache, project_pk, storage_token)
                   ELSE cache,
         returned |-> IF response.status = 200 THEN storage_token.token ELSE <<>>]

\* Component._init_project_storage_token: what it considered, whether it called
\* generate_token, the exception, the cache afterwards and the token returned
_init_project_storage_token(project_id, cache, response) ==
    LET project_pk == _build_project_pk(project_id)
        storage_token ==
            IF ~branch_mode
            THEN IF project_pk \in DOMAIN cache THEN cache[project_pk] ELSE None
            ELSE LET token_key == SelectSeq(master_tokens,
                                            LAMBDA t : Head(t) = project_id)[1]
                 IN  StorageToken(SplitOn(token_key, "-", <<>>)[2], token_key,
                                  MASTER_EXPIRES)
        checked == storage_token # None
        expired == checked /\ is_expired(storage_token, now)
        seen == [checked |-> checked, expired |-> expired, considered |-> storage_token]
    IN  IF checked /\ ~expired
        THEN seen @@ [attempted |-> FALSE, err |-> "none", cache |-> cache,
                      returned |-> storage_token.token]
        ELSE IF response.status = 401
        THEN seen @@ [attempted |-> TRUE, err |-> "UserException", cache |-> cache,
                      returned |-> <<>>]
        ELSE IF response.status # 200
        THEN seen @@ [attempted |-> TRUE, err |-> "HTTPError", cache |-> cache,
                      returned |-> <<>>]
        ELSE LET token == StorageToken(response.json.id, response.json.token,
                                       response.json.expires)
             IN  seen @@ [attempted |-> TRUE, err |-> "none",
                          cache |-> Put(cache, project_pk, token),
                          returned |-> token.token]

\* 2021-06-01T10:15:28+0200, the time of the tests of is_expired
TestNow == [s |-> Timestamp(Iso(0, 10, 15, 28, 120)), half |-> 0]

\* the clocks a run starts at: the test's, half a second later, and shortly
\* before the expiry written into the master tokens
StartClocks ==
    {TestNow, Advance(TestNow, 1),
     [s |-> Timestamp(MASTER_EXPIRES) - EXPIRATION_LIMIT - 1, half |-> 0]}

\* how far the clock advances at once, in half seconds
Deltas == {1, 2 * (EXPIRES_IN - EXPIRATION_LIMIT) - 2}

\* the tokens a loaded cache may hold at the time clock
CachedTokens(clock) ==
    {StorageToken(<<"9259">>, <<"XXXXXXX">>, e) :
        e \in {NoExpires} \cup
              {Format(clock.s + d, 120) :
                  d \in {300, -3300, 1200, EXPIRATION_LIMIT, EXPIRATION_LIMIT + 1}}}

InitToken ==
    /\ now \in StartClocks
    /\ ticks = 0
    /\ branch_mode \in BOOLEAN
    /\ \E D \in SUBSET ProjectIds, e \in CachedTokens(now) :
          token_cache = [project_pk \in {_build_project_pk(project_id) : project_id \in D} |->
                            IF project_pk = _build_project_pk("1") THEN e
                            ELSE StorageToken(<<"9260">>, <<"YYYYYYY">>,
                                              Format(now.s + 1200, 120))]
    /\ serial = 0
    /\ last = None
    /\ token_error = "none"
    /\ keyOrder = <<>>
    /\ heap = <<>>
    /\ ReplaceIdle
    /\ UpsertIdle
    /\ ignore_inactive_orch = FALSE
    /\ SecretsIdle
    /\ AsideIdle
    /\ OrchIdle
    /\ SyncIdle

\* self._init_project_storage_token(project_id), with the answer of the API
\* to generate_token in case it is called
InitProjectStorageToken ==
    /\ token_error = "none"
    /\ \E project_id \in ProjectIds, status \in {200, 401, 500} :
          LET response == [status |-> status,
                           json |-> generate_token(project_id, serial + 1, now)]
              r == _init_project_storage_token(project_id, token_cache, response)
          IN  /\ ~r.attempted => status = 200
              /\ r.attempted => serial < MaxIssued
              /\ token_cache' = r.cache
              /\ token_error' = r.err
              /\ serial' = IF r.attempted /\ status = 200 THEN serial + 1 ELSE serial
              /\ last' = [project_pk |-> _build_project_pk(project_id), at |-> now,
                          before |-> IF _build_project_pk(project_id) \in DOMAIN token_cache
                                     THEN token_cache[_build_project_pk(project_id)]
                                     ELSE None,
                          considered |-> r.considered, checked |-> r.checked,
                          expired |-> r.expired, attempted |-> r.attempted,
                          status |-> IF r.attempted THEN status ELSE 0,
                          returned |-> r.returned]
    /\ UNCHANGED <<now, ticks, branch_mode, keyOrder, heap, varsReplace, varsUpsert,
                   varsSecrets, varsAside, varsOrch, varsSync>>

\* time passes
Tick ==
    /\ token_error = "none"
    /\ ticks < MaxTicks
    /\ ticks' = ticks + 1
    /\ \E d \in Deltas : now' = Advance(now, d)
    /\ UNCHANGED <<branch_mode, token_cache, serial, last, token_error, keyOrder, heap,
                   varsReplace, varsUpsert, varsSecrets, varsAside, varsOrch, varsSync>>

NextToken == InitProjectStorageToken \/ Tick

SpecToken == InitToken /\ [][NextToken]_vars

\* expiry minus the time clock is at most 600 seconds, in half seconds
WithinLimit(expires, clock) ==
    2 * Timestamp(expires) - (2 * clock.s + clock.half) <= 2 * EXPIRATION_LIMIT

\* C8: a token with an expiry is reported expired exactly when its expiry minus
\* the current time is at most 600 seconds; at 10:15:28 a token expiring
\* 10:20:28 or 09:20:28 is expired and one expiring 10:35:28 is not.
C8_ExpiredIffWithinLimit ==
    /\ (last # None /\ last.checked /\ last.considered.expires # NoExpires) =>
          (last.expired <=> WithinLimit(last.considered.expires, last.at))
    /\ is_expired(StorageToken(<<"9259">>, <<"XXXXXXX">>, Iso(0, 10, 20, 28, 120)), TestNow)
    /\ is_expired(StorageToken(<<"9259">>, <<"XXXXXXX">>, Iso(0, 9, 20, 28, 120)), TestNow)
    /\ ~is_expired(StorageToken(<<"9259">>, <<"XXXXXXX">>, Iso(0, 10, 35, 28, 120)), TestNow)

\* a token checked exactly 600 seconds before its expiry
C8_Witness ==
    /\ last # None
    /\ last.checked
    /\ last.considered.expires # NoExpires
    /\ Timestamp(last.considered.expires) - last.at.s = EXPIRATION_LIMIT
    /\ last.at.half = 0
    /\ last.expired

\* a cache entry that is missing, has no expiry or is within the limit of it
AbsentOrExpired(entry, clock) ==
    entry = None \/ entry.expires = NoExpires \/ WithinLimit(entry.expires, clock)

\* the step is an acquisition
Acquired == last' # None /\ (last' # last \/ token_cache' # token_cache)

\* the cache changes only by a successful issuance, which replaces the entry of
\* the project by the token issued
CacheChangesByIssuance ==
    token_cache' # token_cache =>
        /\ Acquired
        /\ last'.attempted
        /\ last'.status = 200
        /\ last'.project_pk \in DOMAIN token_cache'
        /\ token_cache'[last'.project_pk].token = last'.returned
        /\ \A k \in DOMAIN token_cache : k \in DOMAIN token_cache'
        /\ \A k \in DOMAIN token_cache' \ {last'.project_pk} :
              k \in DOMAIN token_cache /\ token_cache'[k] = token_cache[k]

\* issuance only for an absent or expired entry; a valid entry is returned as
\* it is, with no issuance and no change of the cache
CacheDecides ==
    Acquired =>
        /\ last'.attempted => AbsentOrExpired(last'.before, now)
        /\ ~AbsentOrExpired(last'.before, now) =>
              /\ ~last'.attempted
              /\ last'.returned = last'.before.token
              /\ token_cache' = token_cache

----------------------------------------------------------------------------
(* Secret detection on parameter trees *)

MaxSecretNodes == 4

SecretTreeKeys == {<<"a">>, <<"b">>, <<HASH, "s">>}

\* the configuration of test_find_secrets and the list the test expects
TestParameters ==
    Dict((<<"api">> :> Dict(<<"baseUrl">> :> Leaf("")))
         @@ (<<"config">> :> Dict((<<"nonsecret">> :> Leaf("sss"))
                                  @@ (<<HASH, "secret1">> :> Leaf("1234"))))
         @@ (<<HASH, "secret2">> :> Leaf("123456"))
         @@ (<<"nested">> :> Dict((<<"flat">> :> Leaf(""))
                                  @@ (<<"l2">> :> Dict((<<"flat">> :> Leaf(""))
                                                       @@ (<<HASH, "secret3">> :>
                                                              Leaf("123456789")))))))

TestKeyOrder ==
    <<<<"api">>, <<"baseUrl">>, <<"config">>, <<"nonsecret">>, <<HASH, "secret1">>,
      <<HASH, "secret2">>, <<"nested">>, <<"flat">>, <<"l2">>, <<HASH, "secret3">>>>

TestSecretPaths ==
    <<<<"config", DOT, HASH, "secret1">>, <<HASH, "secret2">>,
      <<"nested", DOT, "l2", DOT, HASH, "secret3">>>>

\* deeper trees: the test's, one with secrets below a secret on three levels,
\* and one where a key with a dot in it makes two branches spell the same path
DeepParameters ==
    {TestParameters,
     Dict(<<"a">> :> Dict(<<HASH, "s">> :>
             Dict(<<"a">> :> Dict(<<HASH, "s">> :> Leaf("x"))))),
     Dict((<<"a", DOT, "b">> :> Dict(<<HASH, "s">> :> Leaf("x")))
          @@ (<<"a">> :> Dict(<<"b">> :> Dict(<<HASH, "s">> :> Leaf("x")))))}

SecretKeyOrders ==
    {<<<<"a">>, <<"b">>, <<HASH, "s">>>>, <<<<HASH, "s">>, <<"b">>, <<"a">>>>, TestKeyOrder}

InitSecrets ==
    /\ keyOrder \in SecretKeyOrders
    /\ \E configuration \in
             {EmptyDict}
             \cup {Dict(K_PARAMETERS :> t) :
                     t \in TreesOver(SecretTreeKeys, {Leaf("x")}, MaxSecretNodes)
                           \cup DeepParameters} :
          LET a == Alloc(<<>>, ConfigTree(configuration))
          IN  /\ heap = a.heap
              /\ scanned = [id |-> <<"1">>, ref |-> a.val]
    /\ secret_key_paths = None
    /\ ReplaceIdle
    /\ UpsertIdle
    /\ ignore_inactive_orch = FALSE
    /\ TokenIdle
    /\ branch_mode = FALSE
    /\ OrchIdle
    /\ SyncIdle
    /\ AsideIdle

\* secret_key_paths = self._retrieve_encrypted_properties(configuration)
RetrieveEncryptedProperties ==
    /\ scanned # None
    /\ secret_key_paths = None
    /\ secret_key_paths' =
          [kind |-> "list", items |-> _retrieve_encrypted_properties(scanned, heap)]
    /\ UNCHANGED <<keyOrder, heap, scanned, varsReplace, varsUpsert, varsToken, varsOrch,
                   varsSync, varsAside>>

NextSecrets == RetrieveEncryptedProperties

SpecSecrets == InitSecrets /\ [][NextSecrets]_vars

\* '.'.join(keys)
RECURSIVE JoinDots(_)
JoinDots(keys) ==
    IF Len(keys) = 1 THEN Head(keys) ELSE Dotted(Head(keys), JoinDots(Tail(keys)))

\* the parameter tree of the configuration scanned
ScannedParameters == ParametersOf(Unfold(ConfigurationOf(scanned, heap), heap))

\* C6: secret detection returns exactly the dotted paths of the first
\* '#'-prefixed key on each branch of nested maps, one entry for each such key:
\* no path below a '#'-prefixed key, no path of another key, and no entry twice
\* where no key holds a dot; for the tree of test_find_secrets it returns the
\* list the test expects.
C6_SecretPathsExact ==
    secret_key_paths # None =>
        LET found == secret_key_paths.items
            expected == SecretKeyPaths(ScannedParameters)
        IN  /\ \A i \in DOMAIN found : \E kp \in expected : JoinDots(kp) = found[i]
            /\ \A kp \in expected :
                  Cardinality({i \in DOMAIN found : found[i] = JoinDots(kp)})
                      = Cardinality({kq \in expected : JoinDots(kq) = JoinDots(kp)})
            /\ (\A kp \in expected : \A i \in DOMAIN kp : IndexOfDot(kp[i], 1) = 0) =>
                  \A i, j \in DOMAIN found : found[i] = found[j] => i = j
            /\ (ScannedParameters = TestParameters /\ keyOrder = TestKeyOrder) =>
                  found = TestSecretPaths

\* secrets below a '#'-prefixed map and a nested secret have been scanned
C6_Witness ==
    /\ secret_key_paths # None
    /\ Len(secret_key_paths.items) = 2
    /\ \E kp \in SecretKeyPaths(ScannedParameters) : Len(kp) = 2
    /\ \E k \in DOMAIN ScannedParameters.items :
          /\ StartsWithHash(k)
          /\ IsDict(ScannedParameters.items[k])
          /\ \E k2 \in DOMAIN ScannedParameters.items[k].items : StartsWithHash(k2)

----------------------------------------------------------------------------
(* Component.run, upsert_orchestrations_to_dst and the orchestration       *)
(* mapping, over runs in both directions                                   *)

PROD_TO_DEV_MODE == "prod_to_dev"

DEV_TO_PROD_MODE == "dev_to_prod"

MaxOrchId == 3

MaxRuns == 2

\* parameters dev_id and prod_id
DEV_PROJ_ID == "1"

PROD_PROJ_ID == "2"

\* src_project_id, dst_project_id
_get_project_ids(mode_) ==
    IF mode_ = DEV_TO_PROD_MODE THEN <<DEV_PROJ_ID, PROD_PROJ_ID>>
    ELSE IF mode_ = PROD_TO_DEV_MODE THEN <<PROD_PROJ_ID, DEV_PROJ_ID>>
    ELSE [err |-> "UserException"]

\* an id as the JSON of an API holds it: a string or a number
StrId(n) == [type |-> "str", n |-> n]

IntId(n) == [type |-> "int", n |-> n]

\* str(orchestration_id)
Str(id) == [type |-> "str", n |-> id.n]

\* self.orchestration_mapping.get(project_pk, {}).get(id)
MappingGet(mapping, project_pk, id) ==
    IF project_pk \in DOMAIN mapping /\ id \in DOMAIN mapping[project_pk]
    THEN mapping[project_pk][id]
    ELSE None

\* self.orchestration_mapping.get(project_pk, {})
MappingGetAll(mapping, project_pk) ==
    IF project_pk \in DOMAIN mapping THEN mapping[project_pk] ELSE <<>>

\* the mapping without the entry of the destination project
add_orchestration_mapping_forward_only(mapping, src_id, dst_id, src_project_id, dst_project_id) ==
    LET project_pk == _build_project_pk(src_project_id)
    IN  Put(mapping, project_pk,
            Put(IF project_pk \in DOMAIN mapping THEN mapping[project_pk] ELSE <<>>,
                src_id, dst_id))

\* self.orchestration_mapping after _add_orchestration_mapping(src_id, dst_id)
_add_orchestration_mapping(mapping, src_id, dst_id, src_project_id, dst_project_id) ==
    LET src_pk == _build_project_pk(src_project_id)
        with_src == IF src_pk \notin DOMAIN mapping \/ DOMAIN mapping[src_pk] = {}
                    THEN Put(mapping, src_pk, <<>>) ELSE mapping
        forward == Put(with_src, src_pk, Put(with_src[src_pk], src_id, dst_id))
        dst_pk == _build_project_pk(dst_project_id)
        with_dst == IF dst_pk \notin DOMAIN forward \/ DOMAIN forward[dst_pk] = {}
                    THEN Put(forward, dst_pk, <<>>) ELSE forward
    IN  Put(with_dst, dst_pk, Put(with_dst[dst_pk], dst_id, src_id))

\* json.loads(json.dumps(mapping)): the keys of a JSON object are strings
StateFileOf(mapping) ==
    [project_pk \in DOMAIN mapping |->
        [k \in {Str(id) : id \in DOMAIN mapping[project_pk]} |->
            mapping[project_pk][CHOOSE id \in DOMAIN mapping[project_pk] : Str(id) = k]]]

\* first index of the orchestration with int(o['id']) == orchestration_id, 0 if none
RECURSIVE IndexOfId(_, _, _)
IndexOfId(orchestrations, orchestration_id, idx) ==
    IF idx > Len(orchestrations) THEN 0
    ELSE IF orchestrations[idx].id.n = orchestration_id THEN idx
    ELSE IndexOfId(orchestrations, orchestration_id, idx + 1)

\* a lookup that pops nothing
pop_nothing(orchestrations, orchestration_id) ==
    [found_element |-> None, orchestrations |-> orchestrations]

\* a lookup that hands the element out and leaves it in the list
pop_without_removing(orchestrations, orchestration_id) ==
    LET at == IndexOfId(orchestrations, orchestration_id, 1)
    IN  [found_element |-> IF at # 0 /\ at - 1 # 0 THEN orchestrations[at] ELSE None,
         orchestrations |-> orchestrations]

\* pop_index counts from 0 and is popped only if it is truthy
_pop_orchestration_id_from_list(orchestrations, orchestration_id) ==
    LET at == IndexOfId(orchestrations, orchestration_id, 1)
    IN  IF at # 0 /\ at - 1 # 0
        THEN [found_element |-> orchestrations[at],
              orchestrations |-> SubSeq(orchestrations, 1, at - 1)
                                 \o SubSeq(orchestrations, at + 1, Len(orchestrations))]
        ELSE [found_element |-> None, orchestrations |-> orchestrations]

\* the ids in the tasks of component 'orchestrator' of an orchestration, in
\* the order of the tasks
LinksOf(c) ==
    IF "links" \in DOMAIN c THEN c.links
    ELSE IF c.link = 0 THEN <<>> ELSE <<c.link>>

\* the inner loop: [non_prio_list, prio_list] after the tasks of one orchestration
RECURSIVE order_tasks(_, _, _)
order_tasks(tasks, non_prio_list, prio_list) ==
    IF tasks = <<>> THEN [non_prio_list |-> non_prio_list, prio_list |-> prio_list]
    ELSE LET r == _pop_orchestration_id_from_list(non_prio_list, Head(tasks))
         IN  order_tasks(Tail(tasks), r.orchestrations,
                         IF r.found_element # None
                         THEN Append(prio_list, r.found_element) ELSE prio_list)

RECURSIVE order_loop(_, _, _)
order_loop(orchestrations, non_prio_list, prio_list) ==
    IF orchestrations = <<>> THEN prio_list \o non_prio_list
    ELSE LET r == order_tasks(LinksOf(Head(orchestrations)), non_prio_list, prio_list)
         IN  order_loop(Tail(orchestrations), r.non_prio_list, r.prio_list)

_order_orchestration_by_link(orchestrations) ==
    order_loop(orchestrations, orchestrations, <<>>)

\* the orchestrations of a project as the Storage API lists them, in the
\* order of their ids: ids are strings; link is the id in the task of component 'orchestrator', 0 if none
RECURSIVE Listing(_, _)
Listing(held, ids) ==
    IF ids = {} THEN <<>>
    ELSE LET n == CHOOSE x \in ids : \A y \in ids : x <= y
         IN  <<[id |-> StrId(n), name |-> held[n].name, active |-> held[n].active,
                link |-> held[n].link]>>
             \o Listing(held, ids \ {n})


MaxListed == 2

\* the orchestrations a project holds before the first run carry names of
\* their own
Named(project_id, held) ==
    [n \in DOMAIN held |-> [name |-> <<project_id, n>>, active |-> held[n].active,
                            link |-> held[n].link]]

\* what a project holds at the start: orchestrations 1..k, at most one of them
\* inactive and at most one with a task that runs another one, its neighbour,
\* which the project may not hold any more
HeldAtStart(most) ==
    UNION {{[n \in 1..k |-> [active |-> n # inactive,
                             link |-> IF n = task[1] THEN task[2] ELSE 0]] :
               inactive \in 0..k,
               task \in {<<0, 0>>} \cup {t \in (1..k) \X (1..(k + 1)) :
                                            t[1] - t[2] \in {1, -1}}} :
           k \in 0..most}

\* the variables of the other parts at rest
RestIdle ==
    /\ keyOrder = <<>>
    /\ heap = <<>>
    /\ ReplaceIdle
    /\ UpsertIdle
    /\ TokenIdle
    /\ SecretsIdle
    /\ AsideIdle

InitOrch ==
    /\ run_mode = "none"
    /\ orchestration_mapping = <<>>
    /\ state_file = <<>>
    /\ \E dev \in HeldAtStart(MaxListed), prod \in HeldAtStart(1) :
          /\ \A n \in DOMAIN prod : prod[n].active /\ prod[n].link = 0
          /\ projects = (DEV_PROJ_ID :> Named(DEV_PROJ_ID, dev))
                        @@ (PROD_PROJ_ID :> Named(PROD_PROJ_ID, prod))
          /\ issued = (DEV_PROJ_ID :> Len(dev)) @@ (PROD_PROJ_ID :> Len(prod))
    /\ id_type \in {"str", "int"}
    /\ orch_pc = "idle"
    /\ orch_todo = <<>>
    /\ cfg_ = None
    /\ new_orchestration = None
    /\ orch_calls = <<>>
    /\ runs = 0
    /\ orch_error = "none"
    /\ ignore_inactive_orch \in BOOLEAN
    /\ configs = [project_id \in ProjectIds |-> <<>>]
    /\ branch_id = 0
    /\ branches = 0
    /\ cfg_todo = <<>>
    /\ writes = <<>>
    /\ src_orchestrations = <<>>
    /\ skipped_component_ids = {}
    /\ lookups = <<>>
    /\ previous_run = None
    /\ branch_mode = FALSE
    /\ RestIdle

varsElse == <<keyOrder, heap, varsReplace, varsUpsert, varsToken, varsSecrets, varsAside>>

\* the id of the component of the orchestrations
ORCHESTRATOR == "orchestrator"

\* the component a configuration belongs to
ComponentOf(configuration_id) ==
    IF configuration_id % 2 = 1 THEN "keboola.ex-db-mysql" ELSE "keboola.wr-db-mysql"

\* a filter that lets every component through
filter_components_keeps_all(components) == components

\* the configurations of the components that are not skipped
_filter_components(components) ==
    SelectSeq(components, LAMBDA c : ComponentOf(c.id) \notin skipped_component_ids)

\* the source configurations of the components that are not orchestrations,
\* as list_project_components lists them: each with its rows
RECURSIVE ListConfigurations(_, _)
ListConfigurations(held, ids) ==
    IF ids = {} THEN <<>>
    ELSE LET id == CHOOSE x \in ids : \A y \in ids : x <= y
         IN  <<[id |-> id, rows |-> [r \in 1..Len(held[id]) |-> [id |-> held[id][r]]]]>>
             \o ListConfigurations(held, ids \ {id})

src_project_id == _get_project_ids(run_mode)[1]

dst_project_id == _get_project_ids(run_mode)[2]

\* __init__ reads the mapping of the state file and parameter
\* skipped_components; run lists the configurations and the orchestrations of
\* the source project, drops the skipped ones and orders the orchestrations
Begin(mode_, skipped) ==
    /\ orch_pc \in {"idle", "aborted"}
    /\ runs < MaxRuns
    /\ runs' = runs + 1
    /\ run_mode' = mode_
    /\ skipped_component_ids' = skipped
    /\ configs' = configs
    /\ LET held == projects[_get_project_ids(mode_)[1]]
       IN  orch_todo' = _order_orchestration_by_link(
                            IF ORCHESTRATOR \in skipped THEN <<>>
                            ELSE Listing(held, DOMAIN held))
    /\ LET held == configs[_get_project_ids(mode_)[1]]
       IN  cfg_todo' = (_filter_components(ListConfigurations(held, DOMAIN held)))'
    /\ lookups' = <<>>
    /\ IF branch_mode
       THEN branches' = branches + 1 /\ branch_id' = branches + 1
       ELSE branches' = branches /\ branch_id' = 0
    /\ writes' = <<>>
    /\ orchestration_mapping' = state_file
    /\ orch_pc' = "loop"
    /\ orch_error' = "none"
    /\ orch_calls' = <<>>
    /\ cfg_' = None
    /\ new_orchestration' = None
    /\ UNCHANGED <<state_file, projects, issued, id_type, src_orchestrations, varsElse>>

StartRun == \E mode_ \in {DEV_TO_PROD_MODE, PROD_TO_DEV_MODE} :
    Begin(mode_, skipped_component_ids) /\ UNCHANGED previous_run

\* the start of a run, with the mode and the outcome of the run before it
\* kept for the properties that speak of a second run
StartSync == \E mode_ \in {DEV_TO_PROD_MODE, PROD_TO_DEV_MODE} :
    /\ Begin(mode_, skipped_component_ids)
    /\ previous_run' = IF runs = 0 THEN None ELSE [mode |-> run_mode, pc |-> orch_pc]

\* parameter skipped_components: nothing, the orchestrations, or the
\* component of the first configuration
SkippedAtStart == {{}, {ORCHESTRATOR}, {ComponentOf(1)}}

\* the start of a run whose configuration names the components to skip
StartSkip == \E mode_ \in {DEV_TO_PROD_MODE, PROD_TO_DEV_MODE}, skipped \in SkippedAtStart :
    /\ Begin(mode_, skipped)
    /\ UNCHANGED previous_run

\* an exception leaves upsert_orchestrations_to_dst and run
AbortRun(e) ==
    /\ orch_pc' = "aborted"
    /\ orch_error' = e

\* the replacement that leaves a reference without a mapping as it is
replace_linked_keeps_unmapped(orchestration_cfg, project_pk) ==
    IF orchestration_cfg.link = 0 THEN None
    ELSE IF MappingGet(orchestration_mapping, project_pk,
                       Str(StrId(orchestration_cfg.link))) = None
    THEN StrId(orchestration_cfg.link)
    ELSE MappingGet(orchestration_mapping, project_pk, Str(StrId(orchestration_cfg.link)))

\* the id _replace_linked_orchestrations writes into the task, None if the
\* mapping has none
_replace_linked_orchestrations(orchestration_cfg, project_pk) ==
    IF orchestration_cfg.link = 0 THEN None
    ELSE MappingGet(orchestration_mapping, project_pk, Str(StrId(orchestration_cfg.link)))

LinkOf(id) == IF id = None THEN 0 ELSE id.n

\* get_config_detail on the destination project: the configuration and its
\* rows, always of the project itself, never of a branch
Detail(held, id) == [id |-> id, rows |-> [r \in 1..Len(held[id]) |-> [id |-> held[id][r]]]]

\* a lookup that takes every failure for a configuration that is not there
lookup_swallows_all(held, configuration_id, status) ==
    [err |-> "none",
     val |-> IF status = 200 THEN Detail(held, configuration_id) ELSE None]

\* Component._get_configuration: the configuration, None when the lookup is
\* answered 404, and the HTTPError of any other failure
LookupResult(held, configuration_id, status) ==
    IF status = 200 THEN [err |-> "none", val |-> Detail(held, configuration_id)]
    ELSE IF status = 404 THEN [err |-> "none", val |-> None]
    ELSE [err |-> "HTTPError", val |-> None]

\* the calls of one pass with the rows sent before their root configuration
write_plan_rows_first(src_cfg, parts, branch) ==
    LET Root(mode_) ==
            IF parts.root_config[mode_] = None THEN <<>>
            ELSE <<[op |-> mode_ \o "_config",
                    configurationId |-> parts.root_config[mode_].id,
                    row_id |-> 0, branch_id |-> branch]>>
        Rows(mode_) ==
            [i \in 1..Len(parts.row_configs[mode_]) |->
                [op |-> mode_ \o "_config_row", configurationId |-> src_cfg.id,
                 row_id |-> parts.row_configs[mode_][i].id, branch_id |-> branch]]
    IN  Rows("update") \o Root("update") \o Rows("create") \o Root("create")

\* the calls of one pass of the loop of upsert_component_configurations_to_dst,
\* in the order they are sent: updates first, then creates; each names the
\* branch it is sent to, 0 for the project itself
WritePlan(src_cfg, parts, branch) ==
    LET Root(mode_) ==
            IF parts.root_config[mode_] = None THEN <<>>
            ELSE <<[op |-> mode_ \o "_config",
                    configurationId |-> parts.root_config[mode_].id,
                    row_id |-> 0, branch_id |-> branch]>>
        Rows(mode_) ==
            [i \in 1..Len(parts.row_configs[mode_]) |->
                [op |-> mode_ \o "_config_row", configurationId |-> src_cfg.id,
                 row_id |-> parts.row_configs[mode_][i].id, branch_id |-> branch]]
    IN  Root("update") \o Rows("update") \o Root("create") \o Rows("create")

\* an id the project has not used
FreshId(ids) == IF ids = {} THEN 1 ELSE (CHOOSE x \in ids : \A y \in ids : y <= x) + 1

\* create_config whose configurationId the project does not take over
create_config_other_id(held, configurationId) == Put(held, configurationId + 1, <<>>)

\* create_config: the configuration gets the id of the call when it has one
create_config(held, configurationId) ==
    Put(held, IF configurationId # 0 THEN configurationId ELSE FreshId(DOMAIN held), <<>>)

\* create_config_row: the row gets the id of the call when it has one
create_config_row(held, configuration_id, rowId) ==
    IF configuration_id \notin DOMAIN held THEN held
    ELSE [held EXCEPT ![configuration_id] =
             Append(@, IF rowId # 0 THEN rowId
                       ELSE FreshId({@[i] : i \in DOMAIN @}))]

\* what the calls sent leave in the project they are sent to
RECURSIVE Written(_, _)
Written(held, sent) ==
    IF sent = <<>> THEN held
    ELSE LET call == Head(sent)
         IN  Written(IF call.op = "create_config"
                     THEN create_config(held, call.configurationId)
                     ELSE IF call.op = "create_config_row"
                     THEN create_config_row(held, call.configurationId, call.row_id)
                     ELSE held,
                     Tail(sent))

\* one pass of the loop of upsert_component_configurations_to_dst; a call
\* the destination rejects ends the run
UpsertConfiguration ==
    /\ orch_pc = "loop"
    /\ cfg_todo # <<>>
    /\ LET src_cfg == Head(cfg_todo)
           held == configs[dst_project_id]
       IN  \E status \in {200, 404, 500} :
              /\ status = 200 => src_cfg.id \in DOMAIN held
              /\ status = 404 => src_cfg.id \notin DOMAIN held
              /\ LET got == LookupResult(held, src_cfg.id, status)
                     dst_cfg == got.val
                     parts == _split_configuration_parts(src_cfg, dst_cfg)
                     plan == WritePlan(src_cfg, parts, branch_id)
                 IN  \E n \in 0..Len(plan) :
                        /\ got.err # "none" => n = 0
                        /\ writes' = writes \o SubSeq(plan, 1, n)
                        /\ lookups' = Append(lookups,
                               [component_id |-> ComponentOf(src_cfg.id),
                                configuration_id |-> src_cfg.id, status |-> status])
                        /\ configs' = IF branch_id # 0 THEN configs
                                      ELSE [configs EXCEPT ![dst_project_id] =
                                               Written(held, SubSeq(plan, 1, n))]
                        /\ IF got.err # "none" \/ n < Len(plan)
                           THEN AbortRun("HTTPError") /\ UNCHANGED cfg_todo
                           ELSE /\ cfg_todo' = Tail(cfg_todo)
                                /\ UNCHANGED <<orch_pc, orch_error>>
    /\ UNCHANGED <<run_mode, orchestration_mapping, state_file, projects, issued, id_type,
                   orch_todo, cfg_, new_orchestration, orch_calls, runs, branch_id,
                   branches, src_orchestrations, skipped_component_ids, previous_run,
                   varsElse>>

\* a lookup that raises when the orchestration is not there
lookup_orchestration_raises(held, orchestration_id, status) ==
    IF status = 200 THEN [err |-> "none", val |-> held[orchestration_id]]
    ELSE [err |-> "HTTPError", val |-> None]

\* self._get_configuration('orchestrator', existing_orchestration_id)
LookupOrchestration(held, orchestration_id, status) ==
    IF status = 200 THEN [err |-> "none", val |-> held[orchestration_id]]
    ELSE IF status = 404 THEN [err |-> "none", val |-> None]
    ELSE [err |-> "HTTPError", val |-> None]

\* the branch if existing_orchestration_id of the loop body
UpdateOrchestration ==
    /\ orch_pc = "loop"
    /\ cfg_todo = <<>>
    /\ orch_todo # <<>>
    /\ LET cfg == Head(orch_todo)
           project_pk == _build_project_pk(src_project_id)
           existing_orchestration_id == MappingGet(orchestration_mapping, project_pk, cfg.id)
           link == _replace_linked_orchestrations(cfg, project_pk)
           held == projects[dst_project_id]
       IN  /\ existing_orchestration_id # None
           /\ cfg_' = cfg
           /\ \E status \in {200, 404, 500}, accepted \in BOOLEAN :
                 /\ lookups' = Append(lookups,
                        [component_id |-> ORCHESTRATOR,
                         configuration_id |-> existing_orchestration_id.n,
                         status |-> status])
                 /\ status = 200 => existing_orchestration_id.n \in DOMAIN held
                 /\ status = 404 => existing_orchestration_id.n \notin DOMAIN held
                 /\ status # 200 => accepted
                 /\ LET dst_configuration ==
                            LookupOrchestration(held, existing_orchestration_id.n, status)
                    IN
                    IF dst_configuration.err # "none" \/ ~accepted
                    THEN AbortRun("HTTPError") /\ UNCHANGED <<projects, orch_calls, orch_todo>>
                    ELSE IF dst_configuration.val = None
                    THEN /\ orch_pc' = "loop"
                         /\ orch_todo' = Tail(orch_todo)
                         /\ UNCHANGED <<projects, orch_calls, orch_error>>
                    ELSE LET n == existing_orchestration_id.n
                             active == IF ignore_inactive_orch
                                       THEN dst_configuration.val.active
                                       ELSE cfg.active
                         IN  /\ projects' = [projects EXCEPT ![dst_project_id][n] =
                                                [name |-> cfg.name, active |-> active,
                                                 link |-> LinkOf(link)]]
                             /\ orch_calls' = Append(orch_calls,
                                    [op |-> "update_orchestration", id |-> StrId(n),
                                     src |-> cfg.id, active |-> active, link |-> link])
                             /\ orch_pc' = "loop"
                             /\ orch_todo' = Tail(orch_todo)
                             /\ orch_error' = orch_error
    /\ UNCHANGED <<run_mode, orchestration_mapping, state_file, issued, id_type,
                   new_orchestration, runs, configs, branch_id, branches, cfg_todo,
                   writes, src_orchestrations, skipped_component_ids, previous_run,
                   varsElse>>

\* the else branch up to the answer of create_orchestration
CreateOrchestration ==
    /\ orch_pc = "loop"
    /\ cfg_todo = <<>>
    /\ orch_todo # <<>>
    /\ LET cfg == Head(orch_todo)
           project_pk == _build_project_pk(src_project_id)
           link == _replace_linked_orchestrations(cfg, project_pk)
       IN  /\ MappingGet(orchestration_mapping, project_pk, cfg.id) = None
           /\ cfg_' = cfg
           /\ \E accepted \in BOOLEAN, active \in BOOLEAN :
                 /\ cfg.active => active
                 /\ ~accepted => active
                 /\ IF ~accepted
                    THEN /\ AbortRun("HTTPError")
                         /\ UNCHANGED <<projects, issued, new_orchestration, orch_calls,
                                        orch_todo>>
                    ELSE LET n == issued[dst_project_id] + 1 IN
                         /\ n <= MaxOrchId
                         /\ issued' = [issued EXCEPT ![dst_project_id] = n]
                         /\ projects' = [projects EXCEPT ![dst_project_id] =
                                            Put(@, n, [name |-> cfg.name,
                                                       active |-> active,
                                                       link |-> LinkOf(link)])]
                         /\ new_orchestration' = [id |-> [type |-> id_type, n |-> n]]
                         /\ orch_calls' = Append(orch_calls,
                                [op |-> "create_orchestration", id |-> None,
                                 src |-> cfg.id, active |-> cfg.active, link |-> link])
                         /\ orch_pc' = "created"
                         /\ orch_todo' = Tail(orch_todo)
                         /\ orch_error' = orch_error
    /\ UNCHANGED <<run_mode, orchestration_mapping, state_file, id_type, runs, varsSync,
                   varsElse>>

\* the rest of the else branch: the update of an inactive orchestration and
\* self._add_orchestration_mapping(cfg['id'], new_orchestration['id'])
RecordOrchestration ==
    /\ orch_pc = "created"
    /\ \E accepted \in BOOLEAN :
          /\ cfg_.active => accepted
          /\ IF ~accepted
             THEN /\ AbortRun("HTTPError")
                  /\ UNCHANGED <<projects, orch_calls, orchestration_mapping>>
             ELSE /\ IF cfg_.active
                     THEN UNCHANGED <<projects, orch_calls>>
                     ELSE /\ projects' = [projects EXCEPT
                                 ![dst_project_id][new_orchestration.id.n].active = FALSE]
                          /\ orch_calls' = Append(orch_calls,
                                 [op |-> "update_orchestration", id |-> new_orchestration.id,
                                  src |-> cfg_.id, active |-> FALSE,
                                  link |-> _replace_linked_orchestrations(
                                               cfg_, _build_project_pk(src_project_id))])
                  /\ orchestration_mapping' =
                        _add_orchestration_mapping(orchestration_mapping, cfg_.id,
                                                   new_orchestration.id, src_project_id,
                                                   dst_project_id)
                  /\ orch_pc' = "loop"
                  /\ orch_error' = orch_error
    /\ UNCHANGED <<run_mode, state_file, issued, id_type, orch_todo, cfg_,
                   new_orchestration, runs, varsSync, varsElse>>

\* self._store_state() at the end of run
StoreState ==
    /\ orch_pc = "loop"
    /\ cfg_todo = <<>>
    /\ orch_todo = <<>>
    /\ state_file' = StateFileOf(orchestration_mapping)
    /\ orch_pc' = "idle"
    /\ orch_calls' = <<>>
    /\ cfg_' = None
    /\ new_orchestration' = None
    /\ writes' = <<>>
    /\ lookups' = <<>>
    /\ UNCHANGED <<run_mode, orchestration_mapping, projects, issued, id_type, orch_todo,
                   runs, orch_error, configs, branch_id, branches, cfg_todo,
                   src_orchestrations, skipped_component_ids, previous_run, varsElse>>

\* between runs somebody removes an orchestration the mapping knows
RemoveOrchestration ==
    /\ orch_pc = "idle"
    /\ runs > 0
    /\ runs < MaxRuns
    /\ \E project_id \in ProjectIds : \E n \in DOMAIN projects[project_id] :
          /\ StrId(n) \in DOMAIN MappingGetAll(state_file, _build_project_pk(project_id))
          /\ projects' = [projects EXCEPT ![project_id] =
                          [k \in DOMAIN @ \ {n} |-> @[k]]]
    /\ UNCHANGED <<run_mode, orchestration_mapping, state_file, issued, id_type, orch_pc,
                   orch_todo, cfg_, new_orchestration, orch_calls, runs, orch_error,
                   varsSync, varsElse>>

NextOrch ==
    \/ StartRun
    \/ UpdateOrchestration
    \/ CreateOrchestration
    \/ RecordOrchestration
    \/ StoreState
    \/ RemoveOrchestration

SpecOrch == InitOrch /\ [][NextOrch]_vars

MaxSyncConfigs == 1

MaxSyncRows == 2

\* the configurations a project may hold at the start: ids 1..c, each with
\* rows 1..k
ConfigsAtStart ==
    UNION {[1..c -> {[r \in 1..k |-> r] : k \in 0..MaxSyncRows}] : c \in 0..MaxSyncConfigs}

\* a whole run: both projects hold configurations, the source may hold an
\* orchestration without tasks, and the branch flag is on or off
InitSync ==
    /\ run_mode = "none"
    /\ orchestration_mapping = <<>>
    /\ state_file = <<>>
    /\ \E dev \in {held \in HeldAtStart(1) : \A n \in DOMAIN held : held[n].link = 0} :
          /\ projects = (DEV_PROJ_ID :> Named(DEV_PROJ_ID, dev)) @@ (PROD_PROJ_ID :> <<>>)
          /\ issued = (DEV_PROJ_ID :> Len(dev)) @@ (PROD_PROJ_ID :> 0)
    /\ id_type = "str"
    /\ orch_pc = "idle"
    /\ orch_todo = <<>>
    /\ cfg_ = None
    /\ new_orchestration = None
    /\ orch_calls = <<>>
    /\ runs = 0
    /\ orch_error = "none"
    /\ ignore_inactive_orch = FALSE
    /\ configs \in [ProjectIds -> ConfigsAtStart]
    /\ branch_id = 0
    /\ branches = 0
    /\ cfg_todo = <<>>
    /\ writes = <<>>
    /\ src_orchestrations = <<>>
    /\ skipped_component_ids = {}
    /\ lookups = <<>>
    /\ previous_run = None
    /\ branch_mode \in BOOLEAN
    /\ RestIdle

NextSync ==
    \/ StartSync
    \/ UpsertConfiguration
    \/ UpdateOrchestration
    \/ CreateOrchestration
    \/ RecordOrchestration
    \/ StoreState

SpecSync == InitSync /\ [][NextSync]_vars

\* a whole run outside a branch over configurations of at most one row, with
\* the skipped components chosen anew by the configuration of every run
InitSkip ==
    /\ InitSync
    /\ branch_mode = FALSE
    /\ \A project_id \in ProjectIds : \A id \in DOMAIN configs[project_id] :
          Len(configs[project_id][id]) <= 1

NextSkip ==
    \/ StartSkip
    \/ UpsertConfiguration
    \/ UpdateOrchestration
    \/ CreateOrchestration
    \/ RecordOrchestration
    \/ StoreState

SpecSkip == InitSkip /\ [][NextSkip]_vars

MaxLookupConfigs == 2

\* the configurations a project without orchestrations may hold: ids 1..c,
\* each with no row or with row 1
FewRowConfigs ==
    UNION {[1..c -> {<<>>, <<1>>}] : c \in 0..MaxLookupConfigs}

\* runs over projects that hold configurations only
InitLookup ==
    /\ run_mode = "none"
    /\ orchestration_mapping = <<>>
    /\ state_file = <<>>
    /\ projects = [project_id \in ProjectIds |-> <<>>]
    /\ issued = [project_id \in ProjectIds |-> 0]
    /\ id_type = "str"
    /\ orch_pc = "idle"
    /\ orch_todo = <<>>
    /\ cfg_ = None
    /\ new_orchestration = None
    /\ orch_calls = <<>>
    /\ runs = 0
    /\ orch_error = "none"
    /\ ignore_inactive_orch = FALSE
    /\ configs \in [ProjectIds -> FewRowConfigs]
    /\ branch_id = 0
    /\ branches = 0
    /\ cfg_todo = <<>>
    /\ writes = <<>>
    /\ src_orchestrations = <<>>
    /\ skipped_component_ids = {}
    /\ lookups = <<>>
    /\ previous_run = None
    /\ branch_mode \in BOOLEAN
    /\ RestIdle

NextLookup ==
    \/ StartSync
    \/ UpsertConfiguration
    \/ StoreState

SpecLookup == InitLookup /\ [][NextLookup]_vars

MaxOrdered == 3

MaxLinks == 2

\* the ids the tasks of the orchestration at position i refer to, when refs
\* lists the references as pairs of position and id
RECURSIVE TargetsOf(_, _)
TargetsOf(refs, i) ==
    IF refs = <<>> THEN <<>>
    ELSE (IF Head(refs)[1] = i THEN <<Head(refs)[2]>> ELSE <<>>) \o TargetsOf(Tail(refs), i)

\* the ids 1..k in any order
Orders(k) == {f \in [1..k -> 1..k] : \A i, j \in 1..k : f[i] = f[j] => i = j}

\* the list of the orchestrations with these ids and these references
Listed(order, refs) ==
    [i \in DOMAIN order |-> [id |-> StrId(order[i]), links |-> TargetsOf(refs, i)]]

\* orchestration_list = self._order_orchestration_by_link(...) on any list of
\* up to MaxOrdered orchestrations, in any order, with at most MaxLinks
\* references in all; a task may refer to an orchestration of the list, to the
\* orchestration itself or to one that is not listed
InitOrder ==
    /\ \E k \in 0..MaxOrdered :
          \E order \in Orders(k), refs \in SeqsUpTo((1..k) \X (1..(k + 1)), MaxLinks) :
             src_orchestrations = Listed(order, refs)
    /\ orch_pc = "listed"
    /\ orch_todo = <<>>
    /\ run_mode = "none"
    /\ orchestration_mapping = <<>>
    /\ state_file = <<>>
    /\ projects = <<>>
    /\ issued = <<>>
    /\ id_type = "none"
    /\ cfg_ = None
    /\ new_orchestration = None
    /\ orch_calls = <<>>
    /\ runs = 0
    /\ orch_error = "none"
    /\ ignore_inactive_orch = FALSE
    /\ configs = <<>>
    /\ branch_id = 0
    /\ branches = 0
    /\ cfg_todo = <<>>
    /\ writes = <<>>
    /\ skipped_component_ids = {}
    /\ lookups = <<>>
    /\ previous_run = None
    /\ branch_mode = FALSE
    /\ RestIdle

OrderOrchestrations ==
    /\ orch_pc = "listed"
    /\ orch_todo' = _order_orchestration_by_link(src_orchestrations)
    /\ orch_pc' = "ordered"
    /\ UNCHANGED <<run_mode, orchestration_mapping, state_file, projects, issued, id_type,
                   cfg_, new_orchestration, orch_calls, runs, orch_error, varsSync,
                   varsElse>>

NextOrder == OrderOrchestrations

SpecOrder == InitOrder /\ [][NextOrder]_vars

\* the ids a project key maps, by their text
MappedIds(mapping, project_pk) == {Str(id) : id \in DOMAIN MappingGetAll(mapping, project_pk)}

\* whenever one project key maps S to D, the other maps D to S
Bidirectional(mapping) ==
    \A p, q \in ProjectIds : p # q =>
        LET forward == MappingGetAll(mapping, _build_project_pk(p))
            reverse == MappingGetAll(mapping, _build_project_pk(q))
        IN  \A S \in DOMAIN forward : \E D \in DOMAIN reverse :
                Str(D) = Str(forward[S]) /\ Str(reverse[D]) = Str(S)

\* a step that gives one project key a new id gives the other its counterpart
BothOrNeither ==
    \A p, q \in ProjectIds : p # q =>
        LET forward == MappingGetAll(orchestration_mapping', _build_project_pk(p))
            reverse == MappingGetAll(orchestration_mapping', _build_project_pk(q))
        IN  \A S \in DOMAIN forward :
                Str(S) \notin MappedIds(orchestration_mapping, _build_project_pk(p)) =>
                    \E D \in DOMAIN reverse :
                        /\ Str(D) \notin MappedIds(orchestration_mapping, _build_project_pk(q))
                        /\ Str(D) = Str(forward[S])
                        /\ Str(reverse[D]) = Str(S)

\* C10: after any sequence of schedule syncs and mapping recordings the
\* orchestration mapping, in memory and in the state file, is bidirectional:
\* whenever one project key maps S to D, the other project key maps D to S (ids
\* taken by their text, as the keys of the state file are), and a step inserts
\* both entries or neither.
C10_MappingBidirectional ==
    /\ [](Bidirectional(orchestration_mapping) /\ Bidirectional(state_file))
    /\ [][BothOrNeither]_vars

\* after a run in each direction both project keys map two ids, one pair
\* recorded by each run and the first one read back from the state file
C10_Witness ==
    /\ runs = 2
    /\ orch_pc = "idle"
    /\ \A p \in ProjectIds :
          Cardinality(DOMAIN MappingGetAll(state_file, _build_project_pk(p))) = 2
    /\ \E D \in DOMAIN MappingGetAll(orchestration_mapping, _build_project_pk(DEV_PROJ_ID)) :
          D.type = "int"

----------------------------------------------------------------------------
(* References between orchestrations *)

\* the step sends a write call for an orchestration
SendsOrchestration == Len(orch_calls') = Len(orch_calls) + 1

\* the task reference of the source orchestration a call was sent for, 0 if none
SourceLink(call) == projects[src_project_id][call.src.n].link

\* C11: in every call sent for a schedule, the reference of an
\* orchestration-type task is the destination id the mapping holds for the
\* referenced source id under the source project key, or null when the mapping
\* holds none; a source id is never sent on.
C11_ReferencesRewritten ==
    [][SendsOrchestration =>
          LET call == orch_calls'[Len(orch_calls')]
              held == MappingGetAll(orchestration_mapping,
                                    _build_project_pk(src_project_id))
          IN  /\ SourceLink(call) = 0 => call.link = None
              /\ SourceLink(call) # 0 =>
                    IF StrId(SourceLink(call)) \in DOMAIN held
                    THEN call.link = held[StrId(SourceLink(call))]
                    ELSE call.link = None]_vars

\* in a second run, a call has been sent with a reference rewritten to the id
\* the mapping holds
C11_Witness ==
    /\ runs = 2
    /\ \E i \in DOMAIN orch_calls :
          /\ SourceLink(orch_calls[i]) # 0
          /\ orch_calls[i].link # None
          /\ orch_calls[i].op = "create_orchestration"

\* the run repeats, in the same direction, a run that reached _store_state
Rerun ==
    /\ previous_run # None
    /\ previous_run.pc = "idle"
    /\ previous_run.mode = run_mode

CreatesNoConfiguration ==
    \A i \in DOMAIN writes : writes[i].op \notin {"create_config", "create_config_row"}

CreatesNoOrchestration ==
    \A i \in DOMAIN orch_calls : orch_calls[i].op # "create_orchestration"

\* C12: a second run that starts from the state file and the destination a
\* successful first run left, the source unchanged, sends no create call: none
\* for a root configuration, none for a row, none for a schedule.
C12_RerunCreatesNothing == Rerun => CreatesNoConfiguration /\ CreatesNoOrchestration

\* C12, amended: such a second run creates no schedule, and with the branch
\* flag off it creates no root configuration and no row either.
C12_RerunCreatesNothingOutsideBranch ==
    Rerun => /\ CreatesNoOrchestration
             /\ ~branch_mode => CreatesNoConfiguration

\* a second run with the branch flag off that has updated a root
\* configuration, a row and a schedule
C12_Witness ==
    /\ Rerun
    /\ ~branch_mode
    /\ cfg_todo = <<>>
    /\ orch_todo = <<>>
    /\ \E i \in DOMAIN writes : writes[i].op = "update_config"
    /\ \E i \in DOMAIN writes : writes[i].op = "update_config_row"
    /\ \E i \in DOMAIN orch_calls : orch_calls[i].op = "update_orchestration"

\* the step is an accepted create_orchestration call
CreatesOrchestration == orch_pc = "loop" /\ orch_pc' = "created"

\* the destination holds an orchestration created for this source
\* orchestration: create_orchestration gives the copy the name of its source
CreatedBefore(cfg) ==
    \E n \in DOMAIN projects[dst_project_id] : projects[dst_project_id][n].name = cfg.name

\* C13: a run after a run that a remote failure ended mid-way never
\* duplicates: no create_orchestration call is sent for a source schedule for
\* which an earlier run already created a destination schedule.
C13_RerunNeverDuplicates ==
    [][CreatesOrchestration => ~CreatedBefore(Head(orch_todo))]_vars

\* what the destination project itself holds, outside any branch
LiveDestination == <<projects[dst_project_id], configs[dst_project_id]>>

\* C14: with the branch flag on, every create and update call of the run, for
\* root configurations, rows and schedules, goes to the branch created at the
\* start of the run, and no write changes what the destination project itself
\* holds.
C14_WritesStayInBranch ==
    [][(branch_mode /\ run_mode # "none") =>
          /\ \A i \in DOMAIN writes' : writes'[i].branch_id = branch_id' /\ branch_id' # 0
          /\ LiveDestination' = LiveDestination]_vars

\* C15: the ignore rules of the operator are immutable for the run: no root
\* or row redaction changes the ignore-rule map, so after any sequence of
\* them it holds for every key exactly the configured paths.
C15_IgnoreRulesImmutable == [][ignored_properties_cfg' = ignored_properties_cfg]_vars

\* the step sends a call for a configuration or a row
SendsConfiguration == Len(calls') = Len(calls) + 1

SourceRowIds == {src_config.rows[i].id : i \in DOMAIN src_config.rows}

\* C16: for the components that are not schedules, every root create call
\* carries the id of the source configuration, and every row create or update
\* call carries the id of the source row and the id of the source parent
\* configuration, unchanged.
C16_CallsCarrySourceIds ==
    [][SendsConfiguration =>
          LET call == calls'[Len(calls')]
          IN  /\ call.configurationId = src_config.id
              /\ src_config.id # ""
              /\ IF call.op \in {"create_config_row", "update_config_row"}
                 THEN /\ call.row_id \in SourceRowIds
                      /\ call.row_id = Head(rows).id
                      /\ call.row_id # ""
                 ELSE call.row_id = ""]_vars

\* a root configuration has been created and two of its rows after it
C16_Witness ==
    /\ \E i \in DOMAIN calls : calls[i].op = "create_config" /\ calls[i].configurationId # ""
    /\ \E i, j \in DOMAIN calls :
          /\ i # j
          /\ calls[i].op = "create_config_row" /\ calls[i].row_id # ""
          /\ calls[j].op = "create_config_row" /\ calls[j].row_id # calls[i].row_id

\* the step is one application of _replace_ignored_properties to the source's
\* configuration, with a single ignored path
ReplacesOnePath == mode = "replace" /\ mode' = "replaced" /\ Len(ignored) = 1

\* the keys of the only ignored path, from the configuration object down
IgnoredKeys == Split(Dotted(K_CONFIGURATION, ignored[1]))

\* the configuration the source proposed and the destination snapshot
Proposed == Unfold(changed, heap)

Snapshot == Unfold(original, heap)

\* C17: for an ignored path that is absent from the destination snapshot,
\* its last key or a key along the way missing, redaction leaves the value
\* of the changed configuration at that path exactly as the source proposed
\* it.
C17_AbsentAtDestinationKeepsSource ==
    [][(ReplacesOnePath /\ ValueAt(Snapshot, IgnoredKeys) = None /\ result'.err = "none")
          => ValueAt(result'.json, IgnoredKeys) = ValueAt(Proposed, IgnoredKeys)]_vars

\* C18: for an ignored path with a key missing anywhere, in the changed
\* configuration, in the original or in both, redaction raises no error and
\* replaces nothing for that path.
C18_MissingKeyIsSkipped ==
    [][(ReplacesOnePath /\ (\/ ValueAt(Snapshot, IgnoredKeys) = None
                            \/ ValueAt(Proposed, IgnoredKeys) = None))
          => result'.err = "none" /\ result'.json = Proposed]_vars

\* C19: when a schedule without a mapping is synced, the mapping is recorded
\* after the create call and before the follow-up activation call: whether
\* the activation call succeeds or fails, the created schedule has its
\* mapping entry afterwards.
C19_MappedBeforeActivation ==
    [][orch_pc = "created" =>
          MappingGet(orchestration_mapping', _build_project_pk(src_project_id), cfg_.id)
              = new_orchestration.id]_vars

ListedIds(orchestrations) == {orchestrations[i].id.n : i \in DOMAIN orchestrations}

LinkSet(c) == {LinksOf(c)[i] : i \in DOMAIN LinksOf(c)}

\* no orchestration that a listed one refers to refers to a listed one
\* itself: the references are at most one deep and form no cycle
DepthAtMostOne(orchestrations) ==
    \A i, j \in DOMAIN orchestrations :
        orchestrations[j].id.n \in LinkSet(orchestrations[i]) =>
            LinkSet(orchestrations[j]) \cap ListedIds(orchestrations) = {}

ReferencedFirst(orchestrations) ==
    \A i, j \in DOMAIN orchestrations :
        orchestrations[j].id.n \in LinkSet(orchestrations[i]) => j < i

\* C20: for every list whose references are at most one deep and form no
\* cycle, in the reordered list every referenced schedule that is in the list
\* comes before every schedule that refers to it.
C20_ReferencedComeFirst ==
    (orch_pc = "ordered" /\ DepthAtMostOne(src_orchestrations)) =>
        /\ ReferencedFirst(orch_todo)
        /\ Len(orch_todo) = Len(src_orchestrations)
        /\ ListedIds(orch_todo) = ListedIds(src_orchestrations)

\* a list of three in which the first orchestration refers to the two after
\* it has been reordered
C20_Witness ==
    /\ orch_pc = "ordered"
    /\ DepthAtMostOne(src_orchestrations)
    /\ Len(src_orchestrations) = 3
    /\ Len(src_orchestrations[1].links) = 2
    /\ LinkSet(src_orchestrations[1]) =
          {src_orchestrations[2].id.n, src_orchestrations[3].id.n}
    /\ orch_todo[3] = src_orchestrations[1]

\* the ids some task of the list refers to
ReferencedIds(orchestrations) == UNION {LinkSet(orchestrations[i]) : i \in DOMAIN orchestrations}

\* the orchestrations of the list no task refers to, in the order of the list
Unreferenced(orchestrations) ==
    SelectSeq(orchestrations, LAMBDA c : c.id.n \notin ReferencedIds(src_orchestrations))

\* C21: for every input list, with several references to one schedule,
\* references of a schedule to itself and references to schedules that are
\* not listed, the reordered list is a permutation of the input, no schedule
\* dropped and none twice, and the schedules no task refers to keep their
\* relative order.
C21_PermutationKeepsUnreferencedOrder ==
    orch_pc = "ordered" =>
        /\ Len(orch_todo) = Len(src_orchestrations)
        /\ {orch_todo[i] : i \in DOMAIN orch_todo}
              = {src_orchestrations[i] : i \in DOMAIN src_orchestrations}
        /\ Unreferenced(orch_todo) = Unreferenced(src_orchestrations)

\* two orchestrations refer to the third of the list, which has been moved
\* to the front
C21_Witness ==
    /\ orch_pc = "ordered"
    /\ Len(src_orchestrations) = 3
    /\ src_orchestrations[1].links = <<src_orchestrations[3].id.n>>
    /\ src_orchestrations[2].links = <<src_orchestrations[3].id.n>>
    /\ orch_todo = <<src_orchestrations[3], src_orchestrations[1], src_orchestrations[2]>>

\* the place of a call in the fixed order of one pass
Rank(op) ==
    CASE op = "update_config" -> 1
      [] op = "update_config_row" -> 2
      [] op = "create_config" -> 3
      [] op = "create_config_row" -> 4

\* C22: for every ordinary source configuration the write calls are sent in
\* the order root update, row updates, root create, row creates, and no row
\* call is sent before the root configuration of the row exists where the
\* call is sent to: the destination held it already, or the pass has created
\* it.
C22_ParentBeforeRows ==
    [][Len(writes') > Len(writes) =>
          \A j \in (Len(writes) + 1)..Len(writes') :
             /\ writes'[j].configurationId = Head(cfg_todo).id
             /\ \A i \in (Len(writes) + 1)..(j - 1) :
                   Rank(writes'[i].op) <= Rank(writes'[j].op)
             /\ writes'[j].op \in {"update_config_row", "create_config_row"} =>
                   \/ writes'[j].configurationId \in DOMAIN configs[dst_project_id]
                   \/ \E i \in (Len(writes) + 1)..(j - 1) :
                         /\ writes'[i].op = "create_config"
                         /\ writes'[i].configurationId = writes'[j].configurationId]_vars

\* a root configuration has been created and two of its rows after it
C22_Witness ==
    /\ Len(writes) = 3
    /\ writes[1].op = "create_config"
    /\ writes[2].op = "create_config_row"
    /\ writes[3].op = "create_config_row"
    /\ writes[2].row_id # writes[3].row_id

\* C23: no lookup and no create or update call of a run is for a
\* configuration of a skipped component, and a run that skips the
\* orchestrations sends no orchestration call, looks no orchestration up and
\* leaves the mapping as it was read from the state file
C23_SkippedNeverTouched ==
    /\ \A i \in DOMAIN lookups : lookups[i].component_id \notin skipped_component_ids
    /\ \A i \in DOMAIN writes :
          ComponentOf(writes[i].configurationId) \notin skipped_component_ids
    /\ ORCHESTRATOR \in skipped_component_ids
          => /\ orch_calls = <<>>
             /\ orchestration_mapping = state_file

\* a run that skips the orchestrations of a source that holds one, after an
\* earlier run recorded a mapping, has written its configuration and is
\* about to store the state
C23_Witness ==
    /\ orch_pc = "loop"
    /\ ORCHESTRATOR \in skipped_component_ids
    /\ projects[src_project_id] # <<>>
    /\ state_file # <<>>
    /\ cfg_todo = <<>>
    /\ writes # <<>>

----------------------------------------------------------------------------
(* Startup: __init__ reads the parameters, run sends the first remote calls *)

\* the component kinds the patterns of _parse_config_url know
KINDS == {"writers", "extractors", "applications", "components"}

\* a URL is the sequence of its segments, the parts between slashes; a
\* segment is all digits, holds a dot inside, or is a plain word
UrlSegments == {"connection", "components", "keboola.ex-db", "1", "rows"}

DigitSegments == {"1"}

DottedSegments == {"keboola.ex-db"}

MaxSegments == 6

\* the positions of a '/kind/' with at least one character before it
KindsAt(cfg_url) == {i \in 2..Len(cfg_url) : cfg_url[i] \in KINDS}

\* the matches of rows_match: a kind at i, a dotted stretch behind it, and
\* digits, 'rows', digits from position j on
RowsAt(cfg_url) ==
    {ij \in KindsAt(cfg_url) \X (1..Len(cfg_url)) :
        /\ ij[2] >= ij[1] + 2
        /\ ij[2] + 2 <= Len(cfg_url)
        /\ \E k \in (ij[1] + 1)..(ij[2] - 1) : cfg_url[k] \in DottedSegments
        /\ cfg_url[ij[2]] \in DigitSegments
        /\ cfg_url[ij[2] + 1] = "rows"
        /\ cfg_url[ij[2] + 2] \in DigitSegments}

\* the greedy patterns take the last kind, and the longest dotted stretch
_parse_config_url(cfg_url) ==
    IF KindsAt(cfg_url) = {} THEN [err |-> "UserException"]
    ELSE LET i == CHOOSE x \in KindsAt(cfg_url) : \A y \in KindsAt(cfg_url) : y <= x
         IN  IF i = Len(cfg_url)
             THEN [err |-> "AttributeError"]    \* match.groups()[1] is None
             ELSE [err |-> "none",
                   config_id |-> IF i + 2 <= Len(cfg_url) THEN cfg_url[i + 2] ELSE "",
                   row_id |->
                       IF RowsAt(cfg_url) = {} THEN ""
                       ELSE LET m == CHOOSE ij \in RowsAt(cfg_url) :
                                        \A o \in RowsAt(cfg_url) :
                                            \/ o[1] < ij[1]
                                            \/ o[1] = ij[1] /\ o[2] <= ij[2]
                            IN  cfg_url[m[2] + 2]]

\* the keys of the ignored properties dict, or the exception of the first
\* entry that raises one
RECURSIVE _get_ignored_properties_dict(_, _)
_get_ignored_properties_dict(cfg_override, ignored_dict) ==
    IF cfg_override = <<>> THEN [err |-> "none", val |-> ignored_dict]
    ELSE LET parsed == _parse_config_url(Head(cfg_override))
         IN  IF parsed.err # "none" THEN [err |-> parsed.err]
             ELSE _get_ignored_properties_dict(
                      Tail(cfg_override),
                      ignored_dict \cup {_build_config_key(parsed.config_id, parsed.row_id)})

\* the modes _get_project_ids has a branch for
SupportedModes == {DEV_TO_PROD_MODE, PROD_TO_DEV_MODE}

Modes == SupportedModes \cup {"dev_to_dev"}

InitStart ==
    /\ params \in [mode : Modes,
                   configuration_override : SeqsUpTo(SeqsUpTo(UrlSegments, MaxSegments), 1)]
    /\ init_pc = "new"
    /\ init_error = "none"
    /\ ignored_properties_keys = {}
    /\ remote_calls = <<>>
    /\ PollIdle
    /\ CacheIdle
    /\ OrchIdle
    /\ SyncIdle
    /\ ignore_inactive_orch = FALSE
    /\ branch_mode = FALSE
    /\ keyOrder = <<>>
    /\ heap = <<>>
    /\ ReplaceIdle
    /\ UpsertIdle
    /\ TokenIdle
    /\ SecretsIdle

varsNotStart == <<keyOrder, heap, varsReplace, varsUpsert, varsToken, varsSecrets, varsOrch,
                  varsSync, varsPoll, varsCache>>

\* Component.__init__: the project ids of the mode, then the ignored
\* properties of the overrides
Construct ==
    /\ init_pc = "new"
    /\ LET ids == _get_project_ids(params.mode)
           ignored_dict == _get_ignored_properties_dict(params.configuration_override, {})
       IN  IF params.mode \notin SupportedModes
           THEN /\ init_pc' = "raised"
                /\ init_error' = ids.err
                /\ UNCHANGED ignored_properties_keys
           ELSE IF ignored_dict.err # "none"
           THEN /\ init_pc' = "raised"
                /\ init_error' = ignored_dict.err
                /\ UNCHANGED ignored_properties_keys
           ELSE /\ init_pc' = "built"
                /\ init_error' = "none"
                /\ ignored_properties_keys' = ignored_dict.val
    /\ UNCHANGED <<params, remote_calls, varsNotStart>>

\* Component.run up to the listing of the source: a token for each project,
\* then list_project_components
RunToListing ==
    /\ init_pc = "built"
    /\ init_pc' = "running"
    /\ remote_calls' = <<"generate_token", "generate_token", "list_project_components">>
    /\ UNCHANGED <<params, init_error, ignored_properties_keys, varsNotStart>>

NextStart ==
    \/ Construct
    \/ RunToListing

SpecStart == InitStart /\ [][NextStart]_vars

----------------------------------------------------------------------------
(* C24 *)

\* a locator of the form base/kind/component/id or
\* base/kind/component/id/rows/id
WellFormedLocator(cfg_url) ==
    LET n == Len(cfg_url)
        Plain(from, to) == \A k \in from..to : cfg_url[k] \notin KINDS
    IN  \/ /\ n >= 4
           /\ Plain(1, n - 3)
           /\ cfg_url[n - 2] \in KINDS
           /\ cfg_url[n - 1] \in DottedSegments
           /\ cfg_url[n] \in DigitSegments
        \/ /\ n >= 6
           /\ Plain(1, n - 5)
           /\ cfg_url[n - 4] \in KINDS
           /\ cfg_url[n - 3] \in DottedSegments
           /\ cfg_url[n - 2] \in DigitSegments
           /\ cfg_url[n - 1] = "rows"
           /\ cfg_url[n] \in DigitSegments

BadConfiguration ==
    \/ params.mode \notin SupportedModes
    \/ \E i \in DOMAIN params.configuration_override :
          ~WellFormedLocator(params.configuration_override[i])

\* C24: once __init__ has run on parameters with an unsupported mode or a
\* malformed override locator, the run has ended with a UserException and no
\* remote call has been or will be sent
C24_ConfigurationErrorsAtStartup ==
    (init_pc \notin {"idle", "new"} /\ BadConfiguration)
        => /\ init_pc = "raised"
           /\ init_error = "UserException"
           /\ remote_calls = <<>>

----------------------------------------------------------------------------
(* C25 *)

\* C25: an acquisition that ends with an exception has called generate_token
\* (once: the one answer it was given), has left the token cache as it was
\* and has returned no token; the exception is the UserException exactly when
\* the answer was 401, and the HTTPError of the call otherwise
C25_FailedIssuanceLeavesCache ==
    [][token_error' # "none" =>
          /\ last'.attempted
          /\ token_cache' = token_cache
          /\ serial' = serial
          /\ last'.returned = <<>>
          /\ last'.status # 200
          /\ (last'.status = 401) <=> (token_error' = "UserException")
          /\ (last'.status # 401) <=> (token_error' = "HTTPError")]_vars

\* the master token is rejected while the cache holds an expired token of the
\* project
C25_Witness ==
    /\ token_error = "UserException"
    /\ last # None
    /\ last.status = 401
    /\ last.before # None
    /\ last.expired
    /\ last.project_pk \in DOMAIN token_cache
    /\ token_cache[last.project_pk] = last.before

----------------------------------------------------------------------------
(* C26 *)

\* the step sends the destination lookup of a configuration
LooksConfigurationUp ==
    /\ Len(lookups') = Len(lookups) + 1
    /\ lookups'[Len(lookups')].component_id # ORCHESTRATOR

\* the write calls the step sends
SentNow == SubSeq(writes', Len(writes) + 1, Len(writes'))

\* C26: a configuration whose destination lookup is answered 404 is written
\* with create calls only, the root configuration first, and the run goes on;
\* a lookup that fails in any other way ends the run in that step with the
\* HTTPError: no call is sent in the step, what the destination holds and the
\* state file stay as they are, and an ended run sends and changes nothing
\* until the next run starts
C26_NotFoundCreatesOtherFailureAborts ==
    [][/\ LooksConfigurationUp =>
            LET status == lookups'[Len(lookups')].status
            IN  /\ status = 404 =>
                      /\ \A i \in DOMAIN SentNow :
                            SentNow[i].op \in {"create_config", "create_config_row"}
                      /\ SentNow # <<>> => SentNow[1].op = "create_config"
                      /\ Len(SentNow) = 1 + Len(Head(cfg_todo).rows) => orch_pc' = "loop"
                /\ status \notin {200, 404} =>
                      /\ orch_pc' = "aborted"
                      /\ orch_error' = "HTTPError"
                      /\ writes' = writes
                      /\ orch_calls' = orch_calls
                      /\ configs' = configs
                      /\ projects' = projects
                      /\ state_file' = state_file
       /\ orch_pc = "aborted" =>
            /\ orch_pc' = "loop"
            /\ runs' = runs + 1
            /\ configs' = configs
            /\ projects' = projects
            /\ state_file' = state_file]_vars

\* the lookup of the second configuration fails after the first one has
\* been created with its row at the destination itself
C26_Witness ==
    /\ orch_pc = "aborted"
    /\ branch_id = 0
    /\ Len(lookups) = 2
    /\ lookups[1].component_id # ORCHESTRATOR
    /\ lookups[2].component_id # ORCHESTRATOR
    /\ lookups[1].status = 404
    /\ lookups[2].status = 500
    /\ Len(writes) = 2
    /\ writes[1].op = "create_config"
    /\ writes[2].op = "create_config_row"
    /\ lookups[1].configuration_id \in DOMAIN configs[dst_project_id]
    /\ Len(configs[dst_project_id][lookups[1].configuration_id]) = 1

----------------------------------------------------------------------------
(* C27 *)

\* the step looks an orchestration up at the destination and is answered 404
OrchestrationNotFound ==
    /\ Len(lookups') = Len(lookups) + 1
    /\ lookups'[Len(lookups')].component_id = ORCHESTRATOR
    /\ lookups'[Len(lookups')].status = 404

\* C27: a pass of the loop for a source orchestration whose mapped
\* destination is answered 404 sends no create and no update, leaves the
\* destination and the mapping as they are and goes on with the next
\* orchestration; the state file written at the end of the run still holds
\* the mapping
C27_MissingDestinationIsSkipped ==
    [][/\ OrchestrationNotFound =>
            /\ orch_calls' = orch_calls
            /\ projects' = projects
            /\ orchestration_mapping' = orchestration_mapping
            /\ orch_pc' = "loop"
            /\ orch_error' = orch_error
            /\ orch_todo' = Tail(orch_todo)
       /\ (orch_pc = "loop" /\ orch_pc' = "idle") =>
            state_file' = StateFileOf(orchestration_mapping)]_vars

\* the first mapped orchestration was not found at the destination, the
\* second one has been updated, and the run is about to write the state
C27_Witness ==
    /\ orch_pc = "loop"
    /\ orch_todo = <<>>
    /\ Len(lookups) = 2
    /\ lookups[1].status = 404
    /\ lookups[2].status = 200
    /\ Len(orch_calls) = 1
    /\ orch_calls[1].op = "update_orchestration"

----------------------------------------------------------------------------
(* C28 *)

\* C28: with the flag ignore_inactive_orchestrations set, the update call
\* of a keboola.orchestrator configuration that exists at the destination
\* carries the disabled flag the destination holds
C28_UpdateCarriesDestinationFlag ==
    (ignore_inactive_orch /\ component_id = KEBOOLA_ORCHESTRATOR) =>
        \A i \in DOMAIN calls :
            calls[i].op = "update_config" =>
                /\ calls[i].is_disabled # None
                /\ calls[i].is_disabled = dst_config.isDisabled

----------------------------------------------------------------------------
(* The poll loop of create_branch *)

\* the statuses of a storage job that end block_storage_job_until_completed
TerminalStatuses == {"error", "success"}

JobStatuses == {"waiting", "processing"} \cup TerminalStatuses

MaxPollRetries == 16

\* a wait that doubles without a cap
wait_uncapped(retries_) == 2 ^ retries_

\* min(2 ** retries, 20)
WaitOf(retries_) == IF 2 ^ retries_ < 20 THEN 2 ^ retries_ ELSE 20

\* create_branch has posted the branch and enters the loop: retries = 1
InitPoll ==
    /\ job_status \in JobStatuses
    /\ retries = 1
    /\ slept = 0
    /\ polled = None
    /\ StartIdle
    /\ CacheIdle
    /\ OrchIdle
    /\ SyncIdle
    /\ ignore_inactive_orch = FALSE
    /\ branch_mode = FALSE
    /\ keyOrder = <<>>
    /\ heap = <<>>
    /\ ReplaceIdle
    /\ UpsertIdle
    /\ TokenIdle
    /\ SecretsIdle

varsNotPoll == <<keyOrder, heap, varsReplace, varsUpsert, varsToken, varsSecrets, varsOrch,
                 varsSync, varsStart, varsCache>>

\* the server works on the job; a job that has ended stays as it is
JobAdvances ==
    /\ job_status \notin TerminalStatuses
    /\ job_status' \in IF job_status = "waiting" THEN {"processing"} \cup TerminalStatuses
                       ELSE TerminalStatuses
    /\ UNCHANGED <<retries, slept, polled, varsNotPoll>>

\* one pass of the loop: get_job_status, then the return or the sleep
PollJob ==
    /\ polled = None
    /\ \E answered \in BOOLEAN :
          IF ~answered
          THEN /\ polled' = [err |-> "HTTPError", status |-> "none"]
               /\ UNCHANGED <<retries, slept>>
          ELSE IF job_status \in TerminalStatuses
          THEN /\ polled' = [err |-> "none", status |-> job_status]
               /\ UNCHANGED <<retries, slept>>
          ELSE /\ retries < MaxPollRetries
               /\ retries' = retries + 1
               /\ slept' = WaitOf(retries + 1)
               /\ polled' = polled
    /\ UNCHANGED <<job_status, varsNotPoll>>

NextPoll ==
    \/ JobAdvances
    \/ PollJob

SpecPoll == InitPoll /\ [][NextPoll]_vars

\* the loop is one thread that sleeps at most 20 seconds between two passes:
\* a pass that can be made is made
SpecPollFair == SpecPoll /\ WF_vars(PollJob)

----------------------------------------------------------------------------
(* C29 *)

\* C29: the loop returns a job only with the terminal status the poll
\* reported, it sleeps and polls again only after a poll that reported a
\* status that is not terminal, every sleep is min(2^retries, 20) seconds
\* for the count after its increment and at most 20 seconds, and once the job
\* has a terminal status the loop ends
C29_PollReturnsTerminalAndEnds ==
    /\ [][/\ polled' # polled =>
                /\ polled = None
                /\ polled'.err = "none" =>
                      /\ polled'.status \in TerminalStatuses
                      /\ polled'.status = job_status
          /\ retries' # retries =>
                /\ job_status \notin TerminalStatuses
                /\ polled' = None
                /\ retries' = retries + 1
                /\ slept' = (IF 2 ^ retries' < 20 THEN 2 ^ retries' ELSE 20)
          /\ slept' <= 20]_vars
    /\ (job_status \in TerminalStatuses) ~> (polled # None)

\* the job is returned after four sleeps, the last of them capped
C29_Witness ==
    /\ polled # None
    /\ polled.err = "none"
    /\ polled.status = "success"
    /\ retries = 5
    /\ slept = 20

----------------------------------------------------------------------------
(* The token cache of the state file *)

\* the keys of a token entry as to_dict writes it
TokenFields == {"id", "#token", "expires"}

\* the keys an entry of the state file may hold
EntryFields == TokenFields \cup {"description"}

\* StorageToken.to_dict
to_dict(self) == ("id" :> self.id) @@ ("#token" :> self.token) @@ ("expires" :> self.expires)

\* StorageToken.try_build_from_dict: all(x in ['id', '#token', 'expires'] for
\* x in token_dict) looks at the keys the entry has, and the constructor
\* reads the three keys
try_build_from_dict(token_dict) ==
    IF \A x \in DOMAIN token_dict : x \in TokenFields
    THEN IF TokenFields \subseteq DOMAIN token_dict
         THEN [err |-> "none",
               val |-> StorageToken(token_dict["id"], token_dict["#token"],
                                    token_dict["expires"])]
         ELSE [err |-> "KeyError", val |-> None]
    ELSE [err |-> "none", val |-> None]

\* state_cache as a list, the ancient bug of the platform
ListState == [kind |-> "list"]

\* Component._build_token_cache over the entries not yet visited (the order
\* of the entries decides only which of two raising entries raises)
RECURSIVE build_token_cache_from(_, _, _)
build_token_cache_from(state_cache_, keys, cache) ==
    IF keys = {} THEN [err |-> "none", val |-> cache]
    ELSE LET key == CHOOSE k \in keys : TRUE
             storage_token == try_build_from_dict(state_cache_[key])
         IN  IF storage_token.err # "none" THEN [err |-> storage_token.err, val |-> None]
             ELSE build_token_cache_from(
                      state_cache_, keys \ {key},
                      IF storage_token.val # None THEN Put(cache, key, storage_token.val)
                      ELSE cache)

_build_token_cache(state_cache_) ==
    IF state_cache_ = ListState THEN [err |-> "none", val |-> <<>>]
    ELSE build_token_cache_from(state_cache_, DOMAIN state_cache_, <<>>)

\* the entries a state file may hold for a project: any set of keys, each
\* with a value
TokenEntries ==
    {[x \in D |-> <<x, "value">>] : D \in SUBSET EntryFields}

InitCache ==
    /\ \/ state_cache = ListState
       \/ \E D \in SUBSET {_build_project_pk(project_id) : project_id \in ProjectIds} :
             state_cache \in [D -> TokenEntries]
    /\ tokens_cache = None
    /\ cache_error = "none"
    /\ StartIdle
    /\ PollIdle
    /\ OrchIdle
    /\ SyncIdle
    /\ ignore_inactive_orch = FALSE
    /\ branch_mode = FALSE
    /\ keyOrder = <<>>
    /\ heap = <<>>
    /\ ReplaceIdle
    /\ UpsertIdle
    /\ TokenIdle
    /\ SecretsIdle

varsNotCache == <<keyOrder, heap, varsReplace, varsUpsert, varsToken, varsSecrets, varsOrch,
                  varsSync, varsStart, varsPoll>>

\* self.__token_cache = self._build_token_cache() in __init__
BuildTokenCache ==
    /\ tokens_cache = None
    /\ cache_error = "none"
    /\ LET built == _build_token_cache(state_cache)
       IN  /\ cache_error' = built.err
           /\ tokens_cache' = built.val
    /\ UNCHANGED <<state_cache, varsNotCache>>

\* a token the run had issued for a project
IssuedToken == StorageToken(<<"id", "issued">>, <<"#token", "issued">>, <<"expires", "issued">>)

\* self._update_storage_token_cache(project_pk, storage_token)
UpdateStorageTokenCache ==
    /\ tokens_cache # None
    /\ \E project_id \in ProjectIds :
          /\ tokens_cache' = Put(tokens_cache, _build_project_pk(project_id), IssuedToken)
          /\ tokens_cache' # tokens_cache
    /\ UNCHANGED <<state_cache, cache_error, varsNotCache>>

\* _store_state writes the cache with to_dict; the next run starts from it
StoreTokenCache ==
    /\ tokens_cache # None
    /\ state_cache' = [key \in DOMAIN tokens_cache |-> to_dict(tokens_cache[key])]
    /\ tokens_cache' = None
    /\ UNCHANGED <<cache_error, varsNotCache>>

NextCache ==
    \/ BuildTokenCache
    \/ UpdateStorageTokenCache
    \/ StoreTokenCache

SpecCache == InitCache /\ [][NextCache]_vars

----------------------------------------------------------------------------
(* C30 *)

\* C30: building the token cache raises nothing, and the cache built from a
\* state file holds a token for exactly the entries that have the three
\* fields id, #token and expires, with the values of the entry
C30_MalformedEntryNeverFails ==
    /\ cache_error = "none"
    /\ (tokens_cache # None /\ state_cache # ListState) =>
          \A key \in DOMAIN state_cache :
              IF TokenFields \subseteq DOMAIN state_cache[key]
              THEN /\ key \in DOMAIN tokens_cache
                   /\ \A x \in TokenFields :
                         to_dict(tokens_cache[key])[x] = state_cache[key][x]
              ELSE key \notin DOMAIN tokens_cache
====
